---- MODULE Spec2Model ----
(***************************************************************************)
(* A model of the astra agent framework: the reply parser and the          *)
(* tool-calling loop of Agent.execute (astra/agent.py), complete() and    *)
(* stream() of the four providers (astra/models), the blocking bridge      *)
(* ProviderSyncAdapter.generate (astra/llms.py), ShortTermMemory           *)
(* (astra/memory.py), JSONLRunLogger (astra/storage.py), Application.run   *)
(* (astra/application.py) and DAGWorkflow (astra/workflow.py).             *)
(*                                                                         *)
(* Text is modelled as a sequence of tokens.  A token is a record          *)
(* [k, v]: k is its lexical class, v its spelling.  Python's str           *)
(* operations (strip, find, slicing, concatenation) and the regular        *)
(* expressions of the parser work on these sequences.                      *)
(***************************************************************************)
EXTENDS Integers, Sequences, FiniteSets, TLC

VARIABLES
    \* ---- parse_tool_call applied to one reply (SpecParse)
    text,          \* the reply handed to parse_tool_call
    parsed,        \* what parse_tool_call returned for it
    obj,           \* a valid {tool, args} object
    pre, post,     \* prose put before and after obj in the embedded form
    forms,         \* presentation form -> what parse_tool_call returned
    pair,          \* two candidates put in one reply, and how
    \* ---- Agent.execute (Spec)
    pc,            \* position of the loop
    backend,       \* the class of the backend execute calls generate on
    failed,        \* the last backend call failed at the provider level
    tools,         \* the registry passed to execute: set of tool names
    step,          \* completed iterations of the for loop
    transcript,    \* the transcript string, as a sequence of entries
    replies,       \* the replies backend.generate returned, in order
    call,          \* parsed: what parse_tool_call returned for the last reply
    last_final,    \* Optional[str]
    last_tool_result, \* Optional[str]
    output,        \* the value execute returned
    calls,         \* number of backend.generate calls issued
    prompts,       \* the transcripts passed to backend.generate, in order
    toolLog,       \* the tool invocations made, in order
    exit,          \* how the loop was left ("" while it runs)
    \* ---- LLMProvider.complete (SpecProvider)
    provider,      \* which provider implementation runs
    ppc,           \* position of complete
    attempt,       \* attempts on the primary model that failed so far
    delay,         \* the current backoff delay
    fb,            \* number of fallback models tried
    caught,        \* the exception caught by the handler of the primary attempt
    reqs,          \* the backend requests made, in order
    sleeps,        \* the backoff sleeps made, in order
    presult,       \* what complete returned or raised
    \* ---- ProviderSyncAdapter.generate (SpecBridge)
    bpc,           \* who runs: the caller, or generate inside provider.complete
    loops,         \* the event loops created so far: loop id -> its state
    current,       \* the calling thread's current event loop (0: None)
    running,       \* the event loop running in the calling thread (0: none)
    gen,           \* the call of generate in progress
    gresults,      \* the finished calls of generate, in order
    \* ---- ShortTermMemory (SpecMemory)
    capacity,      \* self.capacity
    buf,           \* self._buf
    added,         \* the messages added since the last clear, in order
    dumped,        \* what the last dump returned
    lastOp,        \* the last operation made on the memory
    \* ---- JSONLRunLogger (SpecLogger)
    logfile,       \* the content of the file at self.path
    existing,      \* the content the file had before the first log call
    clock,         \* the time of the last log call
    logged,        \* the log calls made, in order: their time and record
    \* ---- Application.run (SpecApp)
    apc,           \* position of run
    tasks,         \* self.tasks
    tidx,          \* number of tasks of the list that are over
    context_lines, \* accumulated_context_lines
    results,       \* the results dict, as the sequence of its items
    seen,          \* the calls of agent.execute made, in order
    returned,      \* what these calls returned, in order
    \* ---- LLMProvider.stream (SpecStream, with the variables of complete)
    events,        \* the events the backend stream delivered, in order
    yielded,       \* the chunks stream yielded to its consumer, in order
    \* ---- DAGWorkflow (SpecDag)
    dpc,           \* position: the graph is built, run is in its loop, over
    nodes,         \* the keys of self.nodes, in insertion order
    edges,         \* self.edges: key -> the list of its destinations
    indeg,         \* indeg of run
    ready,         \* ready of run
    dag_results,   \* results of run: the keys it holds, in insertion order
    executed       \* the node functions run called, in order

parseVars == <<text, parsed, obj, pre, post, forms, pair>>
agentVars == <<pc, backend, failed, tools, step, transcript, replies, call, last_final,
               last_tool_result, output, calls, prompts, toolLog, exit>>
provVars  == <<provider, ppc, attempt, delay, fb, caught, reqs, sleeps, presult>>
bridgeVars == <<bpc, loops, current, running, gen, gresults>>
memVars   == <<capacity, buf, added, dumped, lastOp>>
logVars   == <<logfile, existing, clock, logged>>
appVars   == <<apc, tasks, tidx, context_lines, results, seen, returned>>
streamVars == <<events, yielded>>
dagVars   == <<dpc, nodes, edges, indeg, ready, dag_results, executed>>
flowVars  == <<streamVars, dagVars>>
auxVars   == <<memVars, logVars, appVars, flowVars>>
vars      == <<parseVars, agentVars, provVars, bridgeVars, auxVars>>

-----------------------------------------------------------------------------
(* Tokens *)

Tok(k, v) == [k |-> k, v |-> v]
SP      == Tok("ws", " ")
NL      == Tok("ws", "\n")
Word(w) == Tok("w", w)
Str(x)  == Tok("s", x)         \* a JSON string literal "x"
Num(x)  == Tok("n", x)         \* a JSON number literal
Quo(x)  == Tok("q", x)         \* a Python repr string 'x'
LB      == Tok("p", "{")
RB      == Tok("p", "}")
COLON   == Tok("p", ":")
COMMA   == Tok("p", ",")
FINAL   == Tok("mark", "FINAL:")
FENCE_JSON == Tok("fence", "json")     \* the opening fence of a json block
FENCE   == Tok("fence", "")         \* a bare fence
NoTok   == Tok("none", "")

\* text[a..b], as Python's s[a-1:b]
Slice(s, a, b) == SubSeq(s, a, b)

IsWs(t) == t.k = "ws"

\* str.strip(): leading and trailing whitespace removed
Strip(s) ==
    IF \A i \in 1..Len(s) : IsWs(s[i]) THEN <<>>
    ELSE LET a == CHOOSE i \in 1..Len(s) : ~IsWs(s[i]) /\ \A h \in 1..(i-1) : IsWs(s[h])
             b == CHOOSE i \in 1..Len(s) : ~IsWs(s[i]) /\ \A h \in (i+1)..Len(s) : IsWs(s[h])
         IN  Slice(s, a, b)

\* str.find("FINAL:"): position of the first marker, 0 for Python's -1
FindFinal(s) ==
    IF \E i \in 1..Len(s) : s[i] = FINAL
    THEN CHOOSE i \in 1..Len(s) : s[i] = FINAL /\ \A h \in 1..(i-1) : s[h] # FINAL
    ELSE 0

\* the first position >= i that holds no whitespace (Len(s)+1 when none)
SkipWs(s, i) ==
    CHOOSE j \in i..(Len(s)+1) :
        /\ \A h \in i..(j-1) : IsWs(s[h])
        /\ (j = Len(s)+1 \/ ~IsWs(s[j]))

-----------------------------------------------------------------------------
(* Python values: JSON values as json.loads builds them, str and None.     *)
(* t = "lit": a string or number literal, tok its token                    *)
(* t = "obj": a dict, m its items in insertion order, each [k, v]          *)
(* t = "str": a Python str that is a text, txt its tokens                  *)
(* t = "none": None                                                        *)

Val(t, tok, m, txt) == [t |-> t, tok |-> tok, m |-> m, txt |-> txt]
Lit(tok)   == Val("lit", tok, <<>>, <<>>)
Dict(m)    == Val("obj", NoTok, m, <<>>)
PyText(s)  == Val("str", NoTok, <<>>, s)
None       == Val("none", NoTok, <<>>, <<>>)
Item(k, v) == [k |-> k, v |-> v]

HasKey(m, k) == \E i \in 1..Len(m) : m[i].k = k
Get(m, k)    == m[CHOOSE i \in 1..Len(m) : m[i].k = k].v

\* d[k] = v on a dict: a key already present keeps its place
DictSet(m, k, v) ==
    IF HasKey(m, k)
    THEN [i \in 1..Len(m) |-> IF m[i].k = k THEN Item(k, v) ELSE m[i]]
    ELSE Append(m, Item(k, v))

-----------------------------------------------------------------------------
(* json.loads on a text: a recursive-descent parse of the tokens.          *)
(* A parse result is [ok, pos, val]: pos is the position after the value.  *)

Fail == [ok |-> FALSE, pos |-> 0, val |-> None]
Ok(p, v) == [ok |-> TRUE, pos |-> p, val |-> v]

RECURSIVE ParseValue(_, _), ParseMembers(_, _, _)

\* the JSON value that starts at position i of s
ParseValue(s, i) ==
    IF i > Len(s) THEN Fail
    ELSE IF s[i].k \in {"s", "n"} THEN Ok(i + 1, Lit(s[i]))
    ELSE IF s[i] = LB THEN
        LET j == SkipWs(s, i + 1)
        IN  IF j <= Len(s) /\ s[j] = RB THEN Ok(j + 1, Dict(<<>>))
            ELSE ParseMembers(s, j, <<>>)
    ELSE Fail

\* the members of an object from the key at position i on; acc holds the
\* items read so far
ParseMembers(s, i, acc) ==
    IF i > Len(s) \/ s[i].k # "s" THEN Fail
    ELSE LET c == SkipWs(s, i + 1)
         IN  IF c > Len(s) \/ s[c] # COLON THEN Fail
             ELSE LET r == ParseValue(s, SkipWs(s, c + 1))
                  IN  IF ~r.ok THEN Fail
                      ELSE LET e    == SkipWs(s, r.pos)
                               acc2 == DictSet(acc, s[i].v, r.val)
                           IN  IF e > Len(s) THEN Fail
                               ELSE IF s[e] = RB THEN Ok(e + 1, Dict(acc2))
                               ELSE IF s[e] = COMMA
                                    THEN ParseMembers(s, SkipWs(s, e + 1), acc2)
                               ELSE Fail

\* json.loads(s): the whole of s is one value, whitespace around it allowed;
\* ok = FALSE stands for the exception json.loads raises
json_loads(s) ==
    LET r == ParseValue(s, SkipWs(s, 1))
    IN  IF r.ok /\ SkipWs(s, r.pos) = Len(s) + 1 THEN r ELSE Fail

RECURSIVE Dumps(_), DumpItems(_, _)

\* json.dumps(v): items separated by ", ", key and value by ": "
Dumps(v) ==
    IF v.t = "obj" THEN <<LB>> \o DumpItems(v.m, 1) \o <<RB>>
    ELSE IF v.t = "lit" THEN <<v.tok>>
    ELSE <<>>

DumpItems(m, i) ==
    IF i > Len(m) THEN <<>>
    ELSE <<Str(m[i].k), COLON, SP>> \o Dumps(m[i].v)
         \o (IF i < Len(m) THEN <<COMMA, SP>> ELSE <<>>)
         \o DumpItems(m, i + 1)

RECURSIVE PyStr(_), ReprItems(_, _)

\* str(v): a str is itself, a JSON string its characters, a number its
\* digits, a dict its repr
PyStr(v) ==
    IF v.t = "str" THEN v.txt
    ELSE IF v.t = "lit" THEN <<Word(v.tok.v)>>
    ELSE IF v.t = "obj" THEN <<LB>> \o ReprItems(v.m, 1) \o <<RB>>
    ELSE <<Word("None")>>

ReprItems(m, i) ==
    IF i > Len(m) THEN <<>>
    ELSE <<Quo(m[i].k), COLON, SP>>
         \o (IF m[i].v.t = "lit" /\ m[i].v.tok.k = "s"
             THEN <<Quo(m[i].v.tok.v)>> ELSE PyStr(m[i].v))
         \o (IF i < Len(m) THEN <<COMMA, SP>> ELSE <<>>)
         \o ReprItems(m, i + 1)

-----------------------------------------------------------------------------
(* parse_tool_call *)

\* isinstance(obj, dict) and "tool" in obj and "args" in obj
IsToolCall(v) == v.t = "obj" /\ HasKey(v.m, "tool") /\ HasKey(v.m, "args")

\* position of the first "}" at or after i, 0 when there is none
NextRB(s, i) ==
    IF \E j \in i..Len(s) : s[j] = RB
    THEN CHOOSE j \in i..Len(s) : s[j] = RB /\ \A h \in i..(j-1) : s[h] # RB
    ELSE 0

\* the ends j of a fenced group that opens with the "{" at position a:
\* s[j] is a "}" and only whitespace separates it from a closing fence
FenceEnds(s, a) ==
    {j \in (a+1)..Len(s) :
        /\ s[j] = RB
        /\ LET c == SkipWs(s, j + 1) IN c <= Len(s) /\ s[c].k = "fence"}

\* the starts p of a match of the fence pattern: an opening json fence,
\* whitespace, a "{", and an end for it
FenceStarts(s) ==
    {p \in 1..Len(s) :
        /\ s[p] = FENCE_JSON
        /\ LET a == SkipWs(s, p + 1)
           IN  a <= Len(s) /\ s[a] = LB /\ FenceEnds(s, a) # {}}

Min(S) == CHOOSE x \in S : \A y \in S : x <= y

\* re.search of the fence pattern: group(1) of the leftmost match, whose
\* lazy body ends at the first possible "}"; <<>> when there is no match
FencedGroup(s) ==
    IF FenceStarts(s) = {} THEN <<>>
    ELSE LET a == SkipWs(s, Min(FenceStarts(s)) + 1)
         IN  Slice(s, a, Min(FenceEnds(s, a)))

\* step 1: the fenced block, None when it does not hold a tool call
FromFence(s) ==
    LET g == FencedGroup(s)
        r == json_loads(g)
    IN  IF g # <<>> /\ r.ok /\ IsToolCall(r.val) THEN r.val ELSE None

\* step 2: the entire string
FromWhole(s) ==
    LET r == json_loads(s)
    IN  IF r.ok /\ IsToolCall(r.val) THEN r.val ELSE None

RECURSIVE FromScan(_, _)

\* step 3: re.finditer of the lazy brace pattern from position i on: each
\* match runs from the next "{" to the first "}" after it, and the scan
\* resumes after the match
FromScan(s, i) ==
    IF ~(\E a \in i..Len(s) : s[a] = LB) THEN None
    ELSE LET a == CHOOSE a \in i..Len(s) : s[a] = LB /\ \A h \in i..(a-1) : s[h] # LB
             b == NextRB(s, a + 1)
         IN  IF b = 0 THEN None
             ELSE LET seg == Slice(s, a, b)
                      r   == json_loads(seg)
                  IN  IF /\ \E h \in 1..Len(seg) : seg[h] = Str("tool")
                         /\ \E h \in 1..Len(seg) : seg[h] = Str("args")
                         /\ r.ok /\ IsToolCall(r.val)
                      THEN r.val
                      ELSE FromScan(s, b + 1)

\* the JSON strategies with the scan tried first
FromJson_ScanFirst(s) ==
    IF FromScan(s, 1) # None THEN FromScan(s, 1)
    ELSE IF FromFence(s) # None THEN FromFence(s)
    ELSE FromWhole(s)

\* the three JSON strategies in the order the code tries them
FromJson(s) ==
    IF FromFence(s) # None THEN FromFence(s)
    ELSE IF FromWhole(s) # None THEN FromWhole(s)
    ELSE FromScan(s, 1)

\* a parser that looks for a tool call before it looks for the marker
parse_tool_call_json_first(t) ==
    LET s   == Strip(t)
        idx == FindFinal(s)
    IN  IF FromJson(s) # None THEN FromJson(s)
        ELSE IF idx # 0
        THEN Dict(<<Item("final", PyText(Strip(Slice(s, idx + 1, Len(s)))))>>)
        ELSE None

\* parse_tool_call(text): {"final": ...}, a tool-call dict, or None
parse_tool_call(t) ==
    LET s   == Strip(t)
        idx == FindFinal(s)
    IN  IF idx # 0
        THEN Dict(<<Item("final", PyText(Strip(Slice(s, idx + 1, Len(s)))))>>)
        ELSE FromJson(s)

-----------------------------------------------------------------------------
(* SpecParse: parse_tool_call applied to replies built from a valid        *)
(* {tool, args} object, prose and the final marker.                        *)

MaxDepth == 2      \* nesting depth of the args objects
MaxParts == 3      \* number of segments a reply is put together from

Pending == Val("pending", NoTok, <<>>, <<>>)

RECURSIVE ArgsOfDepth(_)
\* the args mappings nested at most d deep: {}, {"x": 1}, {"x": {}}, ...
ArgsOfDepth(d) ==
    IF d = 0 THEN {Dict(<<>>)}
    ELSE ArgsOfDepth(d - 1)
         \cup {Dict(<<Item("x", v)>>) : v \in {Lit(Num("1"))} \cup ArgsOfDepth(d - 1)}

ToolNames == {"Echo"}

\* the valid {tool, args} objects, in both key orders
ValidObjs ==
    {Dict(<<Item("tool", Lit(Str(n))), Item("args", a)>>) :
        n \in ToolNames, a \in ArgsOfDepth(MaxDepth)}
    \cup {Dict(<<Item("args", a), Item("tool", Lit(Str("Echo")))>>) :
        a \in ArgsOfDepth(MaxDepth)}

PrePads  == {<<>>, <<Word("Sure:"), SP>>}
PostPads == {<<>>, <<SP, Word("done")>>}

\* the three presentations of an object
Fenced(o)         == <<FENCE_JSON, NL>> \o Dumps(o) \o <<NL, FENCE>>
Whole(o)          == Dumps(o)
Embedded(o, a, b) == a \o Dumps(o) \o b

\* the segments a reply is put together from
Segments(o, a, b) ==
    {<<FINAL>>, <<SP>>, a, b, Whole(o), Fenced(o)}

RECURSIVE Concats(_, _)
\* the texts made of at most n segments of S
Concats(S, n) ==
    IF n = 0 THEN {<<>>}
    ELSE LET R == Concats(S, n - 1) IN R \cup {x \o y : x \in R, y \in S}

FormNames == {"fenced", "whole", "embedded"}

\* a candidate for the scan: its text, the object it denotes if it is a
\* well-formed {tool, args} object, and whether its text is a minimal
\* brace-delimited substring (no brace between its first and its last)
Cand(txt, val, flat) == [txt |-> txt, val |-> val, flat |-> flat]
FlatCall(n) == Dict(<<Item("tool", Lit(Str(n))), Item("args", Lit(Num("1")))>>)
Cands(o) ==
    { Cand(Dumps(FlatCall("Echo")), FlatCall("Echo"), TRUE),
      Cand(Dumps(FlatCall("Other")), FlatCall("Other"), TRUE),
      Cand(Dumps(o), o, FALSE),
      Cand(<<LB, Str("tool"), COLON, SP, Str("Echo"), RB>>, None, TRUE),
      Cand(<<LB, Str("tool"), COLON, SP, Str("args"), RB>>, None, TRUE),
      Cand(<<LB, Str("tool"), COMMA, SP, Str("args"), RB>>, None, TRUE) }
Layouts == {"embedded_embedded", "embedded_fenced"}
NoPair == [layout |-> "", first |-> Cand(<<>>, None, TRUE), second |-> Cand(<<>>, None, TRUE)]

\* a reply that holds the candidate c1 and, after it, the candidate c2,
\* embedded or in a json fence
PairText(layout, c1, c2, a, b) ==
    a \o c1.txt \o <<SP, Word("or"), SP>>
      \o (IF layout = "embedded_fenced"
          THEN <<FENCE_JSON, NL>> \o c2.txt \o <<NL, FENCE>> ELSE c2.txt)
      \o b

ParseInit ==
    /\ obj \in ValidObjs
    /\ pre \in PrePads
    /\ post \in PostPads
    /\ pre \o post # <<>>
    /\ forms = [f \in FormNames \cup {"reply", "pair"} |-> Pending]
    /\ pair = NoPair
    /\ text = <<>>
    /\ parsed = Pending

Present(f, t) ==
    /\ forms[f] = Pending
    /\ text' = t
    /\ parsed' = parse_tool_call(t)
    /\ forms' = [forms EXCEPT ![f] = parsed']
    /\ UNCHANGED <<obj, pre, post, pair, agentVars, provVars, bridgeVars, auxVars>>

ParseFenced   == Present("fenced", Fenced(obj))
ParseWhole    == Present("whole", Whole(obj))
ParseEmbedded == Present("embedded", Embedded(obj, pre, post))

\* a reply put together from segments, once the three presentations are done
ParseReply ==
    /\ \A f \in FormNames : forms[f] # Pending
    /\ forms["pair"] = Pending
    /\ \E t \in Concats(Segments(obj, pre, post), MaxParts) : Present("reply", t)

\* a reply that holds two different candidates, once the three
\* presentations are done
ParsePair ==
    /\ \A f \in FormNames : forms[f] # Pending
    /\ forms["pair"] = Pending /\ forms["reply"] = Pending
    /\ \E layout \in Layouts, c1 \in Cands(obj), c2 \in Cands(obj) :
        /\ c1 # c2
        /\ pair' = [layout |-> layout, first |-> c1, second |-> c2]
        /\ text' = PairText(layout, c1, c2, pre, post)
    /\ parsed' = parse_tool_call(text')
    /\ forms' = [forms EXCEPT !["pair"] = parsed']
    /\ UNCHANGED <<obj, pre, post, agentVars, provVars, bridgeVars, auxVars>>

-----------------------------------------------------------------------------
(* Agent.execute: the tool-calling loop.  One action per stretch of code   *)
(* between two blocking calls (backend.generate, the tool).                *)

max_steps == 6

\* Optional[str]
NoneStr    == [some |-> FALSE, txt |-> <<>>]
Some(t)    == [some |-> TRUE, txt |-> t]
\* the truth value Python gives an Optional[str]: None and "" are false
Truthy(o)  == o.some /\ o.txt # <<>>

\* one piece of the transcript string: the conversation it starts with, or
\* the block appended after a tool call
Entry(kind, name, args, result) ==
    [kind |-> kind, name |-> name, args |-> args, result |-> result]
Conversation == Entry("conversation", <<>>, <<>>, <<>>)

\* the registry's tools; Echo's args model has one required field, x
Registries == {{}, {"Echo"}}
Validates(args) == args.t = "obj" /\ HasKey(args.m, "x")

\* what the tool's callable can return (stringified) and raise
ToolResults == {<<Word("1")>>, <<SP, Word("ok"), NL>>, <<>>}
ToolErrors  == {"boom"}

\* what the backend can reply
EchoCall(a) == Dict(<<Item("tool", Lit(Str("Echo"))), Item("args", a)>>)
FooCall(a)  == Dict(<<Item("tool", Lit(Str("Foo"))), Item("args", a)>>)
X1          == Dict(<<Item("x", Lit(Num("1")))>>)
\* a call of Echo that carries one more key
ExtraKeyCall(k) ==
    Dict(<<Item("tool", Lit(Str("Echo"))), Item("args", X1), Item(k, Lit(Str("x")))>>)
AgentReplies ==
    { <<FINAL, SP, Word("42")>>,
      Whole(ExtraKeyCall("final")),
      <<FINAL>>,
      Fenced(EchoCall(X1)),
      Whole(EchoCall(Dict(<<>>))),
      Whole(FooCall(X1)),
      <<Word("hello"), NL>>,
      <<SP>>,
      Whole(EchoCall(X1)) \o <<NL, FINAL, SP, Word("7")>> }

\* parse_tool_call(reply) for each of these replies
\* the backends execute can be given: llm or self.llm, OllamaLLM() by default
Backends == {"ProviderSyncAdapter", "OllamaLLM"}

\* what the ollama process can write to stderr before it fails
StdErrs == {<<Word("model 'llama3' not found")>>}

\* f"Ollama error: {e.stderr.decode('utf-8').strip()}"
OllamaError(e) == <<Word("Ollama error:"), SP>> \o Strip(e)

\* OllamaLLM.generate returns result.stdout.decode("utf-8").strip()
RepliesOf(b) ==
    IF b = "OllamaLLM" THEN {Strip(r) : r \in AgentReplies} ELSE AgentReplies

Parsed == [r \in AgentReplies \cup RepliesOf("OllamaLLM")
                 \cup {OllamaError(e) : e \in StdErrs} |-> parse_tool_call(r)]

\* classification of a reply by what parse_tool_call returned for it
IsUnparsed(v) == v = None
IsFinal(v)    == v.t = "obj" /\ HasKey(v.m, "final")
\* tool_name = str(parsed.get("tool", ""))
ToolNameOf(v) == IF HasKey(v.m, "tool") THEN PyStr(Get(v.m, "tool")) ELSE <<>>
\* tool_args = parsed.get("args", {})
ToolArgsOf(v) == IF HasKey(v.m, "args") THEN Get(v.m, "args") ELSE Dict(<<>>)
\* a check that only asks whether there is a registry
Unavailable_NoLookup(reg, name) == reg = {}

\* not tools or tool_name not in tools
Unavailable(reg, name) == reg = {} \/ name \notin {<<Word(n)>> : n \in reg}

\* a loop bound that is off by one
MoreSteps_OffByOne(n) == n <= max_steps

\* range(max_steps) has another iteration after n completed ones
MoreSteps(n) == n < max_steps

\* a return that does not strip
ReturnValue_NoStrip(lf, ltr) ==
    IF Truthy(lf) THEN lf.txt ELSE IF Truthy(ltr) THEN ltr.txt ELSE <<>>

\* a return that forgets the last tool result
ReturnValue_FinalOnly(lf, ltr) == Strip(IF Truthy(lf) THEN lf.txt ELSE <<>>)

\* return (last_final or last_tool_result or "").strip()
ReturnValue(lf, ltr) ==
    Strip(IF Truthy(lf) THEN lf.txt ELSE IF Truthy(ltr) THEN ltr.txt ELSE <<>>)

\* f"Tool '{tool_name}' not available. Proceeding without tools.\n\n{reply}"
NotAvailable(name, r) ==
    <<Word("Tool '")>> \o name
    \o <<Word("' not available. Proceeding without tools."), NL, NL>> \o r

\* a transcript that puts the newest tool block first
Fed_Prepend(t, name, args, res) == <<Entry("tool", name, Dumps(args), res)>> \o t

\* a transcript that keeps only the conversation and the last tool block
Fed_Overwrite(t, name, args, res) ==
    <<Conversation, Entry("tool", name, Dumps(args), res)>>

\* transcript += "[Tool call] Name: ... Args: ... [Tool result] ..."
Fed(t, name, args, res) == Append(t, Entry("tool", name, Dumps(args), res))

\* f"Tool execution error: {e}"
ExecutionError(e) == <<Word("Tool execution error: "), Word(e)>>

AgentInit ==
    /\ pc = "START"
    /\ backend \in Backends
    /\ failed = FALSE
    /\ tools \in Registries
    /\ step = 0
    /\ transcript = <<>>
    /\ replies = <<>>
    /\ call = None
    /\ last_final = NoneStr
    /\ last_tool_result = NoneStr
    /\ output = <<>>
    /\ calls = 0
    /\ prompts = <<>>
    /\ toolLog = <<>>
    /\ exit = ""

\* reply = backend.generate(transcript) is issued
Generate(t) ==
    /\ calls' = calls + 1
    /\ prompts' = Append(prompts, t)
    /\ pc' = "AWAIT_REPLY"

\* the loop is left with last_final = lf: execute returns
Break(lf, how) ==
    /\ last_final' = lf
    /\ output' = ReturnValue(lf, last_tool_result)
    /\ exit' = how
    /\ pc' = "DONE"
    /\ UNCHANGED <<backend, tools, step, transcript, last_tool_result, calls, prompts, toolLog>>

\* execute is entered: the conversation is assembled, the first backend
\* call is made
Start ==
    /\ pc = "START"
    /\ transcript' = <<Conversation>>
    /\ Generate(transcript')
    /\ UNCHANGED <<backend, failed, tools, step, replies, call, last_final,
                   last_tool_result, output, toolLog, exit>>
    /\ UNCHANGED <<parseVars, provVars, bridgeVars, auxVars>>

\* the reply r arrives and parse_tool_call returns None
ReplyUnparsed(r) ==
    /\ IsUnparsed(Parsed[r])
    /\ Break(Some(Strip(r)), "unparsed")

\* a loop that notes the final answer and waits for another reply
ReplyFinal_Continues(r) ==
    LET p == Parsed[r]
    IN  /\ ~IsUnparsed(p) /\ IsFinal(p)
        /\ last_final' = Some(Strip(PyStr(Get(p.m, "final"))))
        /\ UNCHANGED <<pc, backend, tools, step, transcript, last_tool_result,
                       output, calls, prompts, toolLog, exit>>

\* the reply r arrives and holds a final answer
ReplyFinal(r) ==
    LET p == Parsed[r]
    IN  /\ ~IsUnparsed(p) /\ IsFinal(p)
        /\ Break(Some(Strip(PyStr(Get(p.m, "final")))), "final")

\* a loop that calls the tool although the registry does not hold it
ReplyUnknownTool_Dispatches(r) ==
    LET p == Parsed[r]
    IN  /\ ~IsUnparsed(p) /\ ~IsFinal(p)
        /\ Unavailable(tools, ToolNameOf(p))
        /\ pc' = "TOOL_CALL"
        /\ UNCHANGED <<backend, tools, step, transcript, last_final,
                       last_tool_result, output, calls, prompts, toolLog, exit>>

\* the reply r arrives and names a tool that is not in the registry
ReplyUnknownTool(r) ==
    LET p == Parsed[r]
    IN  /\ ~IsUnparsed(p) /\ ~IsFinal(p)
        /\ Unavailable(tools, ToolNameOf(p))
        /\ Break(Some(NotAvailable(ToolNameOf(p), r)), "unknown_tool")

\* a loop that asks the backend for the next reply while the tool runs
ReplyToolCall_Prefetch(r) ==
    LET p == Parsed[r]
    IN  /\ ~IsUnparsed(p) /\ ~IsFinal(p)
        /\ ~Unavailable(tools, ToolNameOf(p))
        /\ pc' = "TOOL_CALL"
        /\ calls' = calls + 1
        /\ prompts' = Append(prompts, transcript)
        /\ UNCHANGED <<backend, tools, step, transcript, last_final,
                       last_tool_result, output, toolLog, exit>>

\* the reply r arrives and names a registered tool: the tool is called
ReplyToolCall(r) ==
    LET p == Parsed[r]
    IN  /\ ~IsUnparsed(p) /\ ~IsFinal(p)
        /\ ~Unavailable(tools, ToolNameOf(p))
        /\ pc' = "TOOL_CALL"
        /\ UNCHANGED <<backend, tools, step, transcript, last_final,
                       last_tool_result, output, calls, prompts, toolLog, exit>>

OnReply ==
    /\ pc = "AWAIT_REPLY"
    /\ failed' = FALSE
    /\ \E r \in RepliesOf(backend) :
        /\ replies' = Append(replies, r)
        /\ call' = Parsed[r]
        /\ \/ ReplyUnparsed(r)
           \/ ReplyFinal(r)
           \/ ReplyUnknownTool(r)
           \/ ReplyToolCall(r)
    /\ UNCHANGED <<parseVars, provVars, bridgeVars, auxVars>>

\* backend.generate raises (ProviderSyncAdapter.generate: the exception of
\* provider.complete leaves run_until_complete and the finally block):
\* nothing in execute catches it
BackendRaises ==
    /\ pc = "AWAIT_REPLY"
    /\ backend = "ProviderSyncAdapter"
    /\ failed' = TRUE
    /\ pc' = "RAISED"
    /\ exit' = "backend_error"
    /\ UNCHANGED <<backend, tools, step, transcript, replies, call, last_final,
                   last_tool_result, output, calls, prompts, toolLog>>
    /\ UNCHANGED <<parseVars, provVars, bridgeVars, auxVars>>

\* OllamaLLM.generate: the ollama process exits with a non-zero status;
\* CalledProcessError is caught and the message is returned as the reply,
\* which the loop handles as any reply
OllamaFails ==
    /\ pc = "AWAIT_REPLY"
    /\ backend = "OllamaLLM"
    /\ failed' = TRUE
    /\ \E e \in StdErrs :
        LET r == OllamaError(e)
        IN  /\ replies' = Append(replies, r)
            /\ call' = Parsed[r]
            /\ ReplyUnparsed(r)
    /\ UNCHANGED <<parseVars, provVars, bridgeVars, auxVars>>

\* the tool call of this turn is over with the text res as tool_result:
\* it is fed back, and the loop goes on or is exhausted
FeedBack(res, outcome, value) ==
    /\ last_tool_result' = Some(res)
    /\ toolLog' = Append(toolLog, [name |-> ToolNameOf(call), args |-> ToolArgsOf(call),
                                   outcome |-> outcome, value |-> value])
    /\ transcript' = Fed(transcript, ToolNameOf(call), ToolArgsOf(call), res)
    /\ step' = step + 1
    /\ IF MoreSteps(step')
       THEN /\ Generate(transcript')
            /\ UNCHANGED <<output, exit>>
       ELSE /\ output' = ReturnValue(last_final, last_tool_result')
            /\ exit' = "step_limit"
            /\ pc' = "DONE"
            /\ UNCHANGED <<calls, prompts>>
    /\ UNCHANGED <<backend, failed, tools, replies, call, last_final>>
    /\ UNCHANGED <<parseVars, provVars, bridgeVars, auxVars>>

\* Tool.__call__: the args validate and the callable returns
ToolReturns ==
    /\ pc = "TOOL_CALL"
    /\ Validates(ToolArgsOf(call))
    /\ \E res \in ToolResults : FeedBack(res, "returned", res)

\* a loop that lets the exception of the callable escape
ToolRaises_Propagates ==
    /\ pc = "TOOL_CALL"
    /\ Validates(ToolArgsOf(call))
    /\ pc' = "RAISED"
    /\ exit' = "backend_error"
    /\ UNCHANGED <<backend, failed, tools, step, transcript, replies, call, last_final,
                   last_tool_result, output, calls, prompts, toolLog>>
    /\ UNCHANGED <<parseVars, provVars, bridgeVars, auxVars>>

\* Tool.__call__: the args validate and the callable raises
ToolRaises ==
    /\ pc = "TOOL_CALL"
    /\ Validates(ToolArgsOf(call))
    /\ \E e \in ToolErrors : FeedBack(ExecutionError(e), "raised", <<Word(e)>>)

\* Tool.__call__: the args model rejects the args
ToolRejects ==
    /\ pc = "TOOL_CALL"
    /\ ~Validates(ToolArgsOf(call))
    /\ FeedBack(ExecutionError("validation error"), "invalid", <<Word("validation error")>>)

-----------------------------------------------------------------------------
(* LLMProvider.complete of the four providers.  One action per backend     *)
(* request: from its outcome to the next request, the return or the raise. *)

max_retries  == 3       \* GeminiProvider.complete
max_attempts == 3       \* AnthropicProvider.complete
fallbacks    == <<"models/gemini-2.5-flash", "models/gemini-2.5-flash-lite",
                  "models/gemini-1.5-flash">>
Providers    == {"ollama", "openai", "gemini", "anthropic"}

\* an exception raised by a request: its class, its HTTP status (0 when it
\* has none) and the number of the request that raised it
Err(cls, status, at) == [cls |-> cls, status |-> status, at |-> at]
NoErr == Err("", 0, 0)

\* NotFound: unknown model; ServerError: a server-side 5xx; Unauthorized:
\* bad credentials; TimeoutError: asyncio.wait_for gave up after 60 s
ErrorsAt(n) ==
    { Err("NotFound", 404, n), Err("ServerError", 503, n),
      Err("Unauthorized", 401, n), Err("TimeoutError", 0, n) }

\* the text of a response: resp.text may be None or empty
RespTexts == {<<>>, <<Word("hi")>>}

\* the outcomes of request number n
Outcome(ok, txt, err) == [ok |-> ok, txt |-> txt, err |-> err]
OutcomesAt(n) ==
    {Outcome(TRUE, t, NoErr) : t \in RespTexts}
    \cup {Outcome(FALSE, <<>>, e) : e \in ErrorsAt(n)}

Request(model, o) == [model |-> model, out |-> o]

\* isinstance(e, ga_exceptions.NotFound)
gemini_not_found(e) == e.cls = "NotFound"
\* isinstance(e, (InternalServerError, ServiceUnavailable, DeadlineExceeded))
gemini_transient(e) == e.cls = "ServerError"
\* a retry budget that is one attempt short
gemini_retry_left_short(a) == a < max_retries - 2

\* attempt < max_retries - 1
gemini_retry_left(a) == a < max_retries - 1

\* a retry test that does not look at the status code
anthropic_retry_any_status(e, a) ==
    /\ e.cls # "TimeoutError"
    /\ a < max_attempts - 1

\* isinstance(e, APIStatusError) and getattr(e, 'status_code', 500) >= 500
\* and attempt < max_attempts - 1
anthropic_retry(e, a) ==
    /\ e.cls # "TimeoutError"
    /\ e.status >= 500
    /\ a < max_attempts - 1

ProvInit ==
    /\ provider \in Providers
    /\ ppc = "primary"
    /\ attempt = 0
    /\ delay = 1
    /\ fb = 0
    /\ caught = NoErr
    /\ reqs = <<>>
    /\ sleeps = <<>>
    /\ presult = [kind |-> "pending", txt |-> <<>>, err |-> NoErr]

Returns(t) ==
    /\ ppc' = "returned"
    /\ presult' = [kind |-> "returned", txt |-> t, err |-> NoErr]

Raises(e) ==
    /\ ppc' = "raised"
    /\ presult' = [kind |-> "raised", txt |-> <<>>, err |-> e]

\* a backoff whose delay stays the same
Backoff_Constant ==
    /\ sleeps' = Append(sleeps, delay)
    /\ delay' = delay
    /\ attempt' = attempt + 1
    /\ UNCHANGED <<ppc, presult>>

\* await asyncio.sleep(delay); delay *= 2; and the next attempt
Backoff ==
    /\ sleeps' = Append(sleeps, delay)
    /\ delay' = 2 * delay
    /\ attempt' = attempt + 1
    /\ UNCHANGED <<ppc, presult>>

\* GeminiProvider.complete: one attempt on the primary model
GeminiAttempt ==
    /\ provider = "gemini" /\ ppc = "primary"
    /\ \E o \in OutcomesAt(Len(reqs) + 1) :
        /\ reqs' = Append(reqs, Request("primary", o))
        /\ IF o.ok
           THEN Returns(o.txt) /\ UNCHANGED <<attempt, delay, sleeps, caught>>
           ELSE IF gemini_not_found(o.err)
           THEN Raises(o.err) /\ UNCHANGED <<attempt, delay, sleeps, caught>>
           ELSE IF gemini_transient(o.err)
           THEN IF gemini_retry_left(attempt)
                THEN Backoff /\ UNCHANGED caught
                ELSE /\ ppc' = "fallback"
                     /\ caught' = o.err
                     /\ UNCHANGED <<attempt, delay, sleeps, presult>>
           ELSE Raises(o.err) /\ UNCHANGED <<attempt, delay, sleeps, caught>>
    /\ UNCHANGED <<provider, fb, agentVars, parseVars, bridgeVars, auxVars>>

\* a fallback list walked from its end
fallback_model_reversed(n) == fallbacks[Len(fallbacks) + 1 - n]

\* for fb in fallbacks: the n-th model tried
fallback_model(n) == fallbacks[n]

\* a fallback loop that ends without the raise: complete returns None
GeminiFallback_FallsThrough ==
    /\ provider = "gemini" /\ ppc = "fallback"
    /\ \E o \in OutcomesAt(Len(reqs) + 1) :
        /\ reqs' = Append(reqs, Request(fallback_model(fb + 1), o))
        /\ fb' = fb + 1
        /\ IF o.ok THEN Returns(o.txt)
           ELSE IF fb' < Len(fallbacks) THEN UNCHANGED <<ppc, presult>>
           ELSE /\ ppc' = "returned"
                /\ presult' = [kind |-> "none", txt |-> <<>>, err |-> NoErr]
    /\ UNCHANGED <<provider, attempt, delay, sleeps, caught, agentVars, parseVars, bridgeVars, auxVars>>

\* GeminiProvider.complete: one fallback model is tried; any exception of
\* it is swallowed, and after the last one the bare raise re-raises the
\* exception the enclosing handler caught
GeminiFallback ==
    /\ provider = "gemini" /\ ppc = "fallback"
    /\ \E o \in OutcomesAt(Len(reqs) + 1) :
        /\ reqs' = Append(reqs, Request(fallback_model(fb + 1), o))
        /\ fb' = fb + 1
        /\ IF o.ok THEN Returns(o.txt)
           ELSE IF fb' < Len(fallbacks) THEN UNCHANGED <<ppc, presult>>
           ELSE Raises(caught)
    /\ UNCHANGED <<provider, attempt, delay, sleeps, caught, agentVars, parseVars, bridgeVars, auxVars>>

\* AnthropicProvider.complete: one attempt
AnthropicAttempt ==
    /\ provider = "anthropic" /\ ppc = "primary"
    /\ \E o \in OutcomesAt(Len(reqs) + 1) :
        /\ reqs' = Append(reqs, Request("primary", o))
        /\ IF o.ok
           THEN Returns(o.txt) /\ UNCHANGED <<attempt, delay, sleeps, caught>>
           ELSE /\ caught' = o.err
                /\ IF anthropic_retry(o.err, attempt)
                   THEN Backoff
                   ELSE Raises(o.err) /\ UNCHANGED <<attempt, delay, sleeps>>
    /\ UNCHANGED <<provider, fb, agentVars, parseVars, bridgeVars, auxVars>>

\* OpenAIChatProvider.complete: one request; its text is returned, its
\* exception is not caught
OpenAIComplete ==
    /\ provider = "openai" /\ ppc = "primary"
    /\ \E o \in OutcomesAt(Len(reqs) + 1) :
        /\ reqs' = Append(reqs, Request("primary", o))
        /\ IF o.ok THEN Returns(o.txt) ELSE Raises(o.err)
    /\ UNCHANGED <<provider, attempt, delay, fb, sleeps, caught, agentVars, parseVars, bridgeVars, auxVars>>

\* OllamaProvider.complete: one POST; raise_for_status raises on an error
\* status, the client raises on a timeout, neither is caught
OllamaComplete ==
    /\ provider = "ollama" /\ ppc = "primary"
    /\ \E o \in OutcomesAt(Len(reqs) + 1) :
        /\ reqs' = Append(reqs, Request("primary", o))
        /\ IF o.ok THEN Returns(o.txt) ELSE Raises(o.err)
    /\ UNCHANGED <<provider, attempt, delay, fb, sleeps, caught, agentVars, parseVars, bridgeVars, auxVars>>

-----------------------------------------------------------------------------
(* LLMProvider.stream of the four providers: an async generator.  One      *)
(* action opens the backend stream, one consumes one event of it.          *)

MaxEvents == 3         \* events a backend stream delivers before it ends

\* an event of the backend stream: a chunk with text, a chunk without text
\* (an empty line for Ollama), an exception raised by the iteration, the end
Event(kind, txt, err) == [kind |-> kind, txt |-> txt, err |-> err]
StreamEvents(n) ==
    {Event("text", <<Word("hi")>>, NoErr), Event("empty", <<>>, NoErr),
     Event("end", <<>>, NoErr)}
    \cup {Event("error", <<>>, e) : e \in ErrorsAt(n)}

\* what the consumer gets for the exception e of the backend: Gemini
\* re-raises NotFound and wraps the rest in RuntimeError, Anthropic wraps all
\* in RuntimeError, OpenAI and Ollama catch nothing
stream_error(p, e) ==
    IF p = "gemini" /\ gemini_not_found(e) THEN e
    ELSE IF p \in {"gemini", "anthropic"} THEN Err("RuntimeError", 0, e.at)
    ELSE e

StreamInit ==
    /\ provider \in Providers
    /\ ppc = "open"
    /\ attempt = 0
    /\ delay = 1
    /\ fb = 0
    /\ caught = NoErr
    /\ reqs = <<>>
    /\ sleeps = <<>>
    /\ presult = [kind |-> "pending", txt |-> <<>>, err |-> NoErr]
    /\ events = <<>>
    /\ yielded = <<>>

\* a stream that backs off and opens the stream again
StreamFails_Retry(e) ==
    /\ sleeps' = Append(sleeps, delay)
    /\ delay' = 2 * delay
    /\ attempt' = attempt + 1
    /\ ppc' = "open"
    /\ UNCHANGED <<presult, fb, caught>>

\* the except clause of stream, or no clause at all: the exception leaves
\* the generator
StreamFails(e) ==
    /\ Raises(stream_error(provider, e))
    /\ UNCHANGED <<attempt, delay, fb, sleeps, caught>>

\* stream = await ...create(..., stream=True): the only backend request
StreamOpen ==
    /\ ppc = "open"
    /\ \E o \in {Outcome(TRUE, <<>>, NoErr)}
                 \cup {Outcome(FALSE, <<>>, e) : e \in ErrorsAt(Len(reqs) + 1)} :
        /\ reqs' = Append(reqs, Request("primary", o))
        /\ IF o.ok
           THEN /\ ppc' = "consuming"
                /\ UNCHANGED <<presult, attempt, delay, fb, sleeps, caught>>
           ELSE StreamFails(o.err)
    /\ UNCHANGED <<provider, events, yielded, dagVars>>
    /\ UNCHANGED <<agentVars, parseVars, bridgeVars, memVars, logVars, appVars>>

\* async for evt in stream: one event; a chunk with text is yielded
StreamNext ==
    /\ ppc = "consuming"
    /\ \E ev \in StreamEvents(Len(reqs)) :
        /\ Len(events) < MaxEvents \/ ev.kind \in {"end", "error"}
        /\ events' = Append(events, ev)
        /\ yielded' = IF ev.kind = "text" THEN Append(yielded, ev.txt) ELSE yielded
        /\ IF ev.kind = "error" THEN StreamFails(ev.err)
           ELSE IF ev.kind = "end"
           THEN /\ ppc' = "exhausted"
                /\ presult' = [kind |-> "exhausted", txt |-> <<>>, err |-> NoErr]
                /\ UNCHANGED <<attempt, delay, fb, sleeps, caught>>
           ELSE UNCHANGED <<ppc, presult, attempt, delay, fb, sleeps, caught>>
    /\ UNCHANGED <<provider, reqs, dagVars>>
    /\ UNCHANGED <<agentVars, parseVars, bridgeVars, memVars, logVars, appVars>>

-----------------------------------------------------------------------------
(* DAGWorkflow: a graph is built with node and link, then run is called.   *)
(* One action per call of node and of link, one for the setup of run, one  *)
(* per iteration of its while loop.                                        *)

MaxLinks == 3          \* calls of link made before run
Keys == {"a", "b", "c"}

\* the elements of a list
Elems(l) == {l[i] : i \in 1..Len(l)}

\* number of occurrences of d in the lists of self.edges
InDegree(E, d) ==
    LET Occ == {<<k, i>> \in Keys \X (1..MaxLinks + 1) : i <= Len(E[k]) /\ E[k][i] = d}
    IN  Cardinality(Occ)

\* number of calls of link made
Links(E) == LET Occ == {<<k, i>> \in Keys \X (1..MaxLinks + 1) : i <= Len(E[k])}
            IN  Cardinality(Occ)

\* [k for k, d in indeg.items() if d == 0], from position i of the keys on
RECURSIVE ZeroFrom(_, _, _)
ZeroFrom(l, deg, i) ==
    IF i > Len(l) THEN <<>>
    ELSE (IF deg[l[i]] = 0 THEN <<l[i]>> ELSE <<>>) \o ZeroFrom(l, deg, i + 1)

\* a release that does not wait for the other predecessors
RECURSIVE Release_Eager(_, _, _, _)
Release_Eager(ds, i, deg, rdy) ==
    IF i > Len(ds) THEN [indeg |-> deg, ready |-> rdy]
    ELSE Release_Eager(ds, i + 1, [deg EXCEPT ![ds[i]] = @ - 1], Append(rdy, ds[i]))

\* for d in self.edges.get(cur, []): indeg[d] -= 1; if indeg[d] == 0:
\* ready.append(d), from position i of the list on
RECURSIVE Release(_, _, _, _)
Release(ds, i, deg, rdy) ==
    IF i > Len(ds) THEN [indeg |-> deg, ready |-> rdy]
    ELSE LET deg2 == [deg EXCEPT ![ds[i]] = @ - 1]
         IN  Release(ds, i + 1, deg2,
                     IF deg2[ds[i]] = 0 THEN Append(rdy, ds[i]) ELSE rdy)

\* DAGWorkflow(name): no node, no edge
DagInit ==
    /\ dpc = "build"
    /\ nodes = <<>>
    /\ edges = [k \in Keys |-> <<>>]
    /\ indeg = <<>>
    /\ ready = <<>>
    /\ dag_results = <<>>
    /\ executed = <<>>

\* node(key, fn): self.nodes[key] = fn; a key already there keeps its place
DagNode ==
    /\ dpc = "build"
    /\ \E key \in Keys :
        nodes' = IF key \in Elems(nodes) THEN nodes ELSE Append(nodes, key)
    /\ UNCHANGED <<dpc, edges, indeg, ready, dag_results, executed>>
    /\ UNCHANGED <<streamVars, parseVars, agentVars, provVars, bridgeVars, memVars, logVars, appVars>>

\* link(src, dst): self.edges.setdefault(src, []).append(dst)
DagLink ==
    /\ dpc = "build"
    /\ Links(edges) < MaxLinks
    /\ \E src \in Keys, dst \in Keys :
        edges' = [edges EXCEPT ![src] = Append(@, dst)]
    /\ UNCHANGED <<dpc, nodes, indeg, ready, dag_results, executed>>
    /\ UNCHANGED <<streamVars, parseVars, agentVars, provVars, bridgeVars, memVars, logVars, appVars>>

\* run is entered: indeg is counted (KeyError for a destination that is no
\* node) and ready holds the nodes without incoming link
DagRunStarts ==
    /\ dpc = "build"
    /\ IF \E k \in Keys : ~(Elems(edges[k]) \subseteq Elems(nodes))
       THEN /\ dpc' = "raised"
            /\ UNCHANGED <<indeg, ready>>
       ELSE /\ dpc' = "run"
            /\ indeg' = [k \in Elems(nodes) |-> InDegree(edges, k)]
            /\ ready' = ZeroFrom(nodes, indeg', 1)
    /\ UNCHANGED <<nodes, edges, dag_results, executed>>
    /\ UNCHANGED <<streamVars, parseVars, agentVars, provVars, bridgeVars, memVars, logVars, appVars>>

\* one iteration of while ready: the node function returns, the result is
\* stored, the destinations of the node are released
DagStep ==
    /\ dpc = "run" /\ ready # <<>>
    /\ LET cur == Head(ready)
           rel == Release(edges[cur], 1, indeg, Tail(ready))
       IN  /\ executed' = Append(executed, cur)
           /\ dag_results' = IF cur \in Elems(dag_results) THEN dag_results
                             ELSE Append(dag_results, cur)
           /\ indeg' = rel.indeg
           /\ ready' = rel.ready
    /\ UNCHANGED <<dpc, nodes, edges>>
    /\ UNCHANGED <<streamVars, parseVars, agentVars, provVars, bridgeVars, memVars, logVars, appVars>>

\* the node function raises: nothing in run catches it
DagNodeRaises ==
    /\ dpc = "run" /\ ready # <<>>
    /\ executed' = Append(executed, Head(ready))
    /\ ready' = Tail(ready)
    /\ dpc' = "raised"
    /\ UNCHANGED <<nodes, edges, indeg, dag_results>>
    /\ UNCHANGED <<streamVars, parseVars, agentVars, provVars, bridgeVars, memVars, logVars, appVars>>

\* ready is empty: run returns results
DagReturns ==
    /\ dpc = "run" /\ ready = <<>>
    /\ dpc' = "returned"
    /\ UNCHANGED <<nodes, edges, indeg, ready, dag_results, executed>>
    /\ UNCHANGED <<streamVars, parseVars, agentVars, provVars, bridgeVars, memVars, logVars, appVars>>

-----------------------------------------------------------------------------
(* ProviderSyncAdapter.generate called from one thread.  The caller owns   *)
(* the event loop 1, which it may be running (an async workflow that calls *)
(* a blocking agent) or not; each call of generate creates a loop of its   *)
(* own.  generate is split where it blocks, in run_until_complete.         *)

MaxGenerateCalls == 3
NoLoop == 0
CallerLoop == 1
NoGen == [loop |-> NoLoop, before |-> NoLoop]
ProviderErrors == {"ProviderError"}

\* a finished call: what it returned or raised, the loop it created and the
\* state it left it in, the thread's current loop before and after it,
\* whether the caller was running a loop, whether provider.complete ran
Finished(kind, txt, err, loop, state, before, after, under, ran) ==
    [kind |-> kind, txt |-> txt, err |-> err, loop |-> loop, at_exit |-> state,
     before |-> before, after |-> after, under |-> under, ran |-> ran]

BridgeInit ==
    /\ bpc = "caller"
    /\ loops = <<"open">>
    /\ current \in {NoLoop, CallerLoop}
    /\ running = NoLoop
    /\ gen = NoGen
    /\ gresults = <<>>

\* the caller starts running its loop: what follows runs in a coroutine
CallerRuns ==
    /\ bpc = "caller" /\ running = NoLoop
    /\ running' = CallerLoop
    /\ UNCHANGED <<bpc, loops, current, gen, gresults>>
    /\ UNCHANGED <<parseVars, agentVars, provVars, auxVars>>

\* the caller's loop stops running
CallerStops ==
    /\ bpc = "caller" /\ running = CallerLoop
    /\ running' = NoLoop
    /\ UNCHANGED <<bpc, loops, current, gen, gresults>>
    /\ UNCHANGED <<parseVars, agentVars, provVars, auxVars>>

\* loop = asyncio.new_event_loop()
new_event_loop == Len(loops) + 1

\* generate is called while no loop runs in the thread: the new loop is made
\* current and runs provider.complete
GenerateEnter ==
    /\ bpc = "caller" /\ running = NoLoop
    /\ Len(gresults) < MaxGenerateCalls
    /\ loops' = Append(loops, "open")
    /\ current' = new_event_loop
    /\ running' = new_event_loop
    /\ gen' = [loop |-> new_event_loop, before |-> current]
    /\ bpc' = "in_complete"
    /\ UNCHANGED gresults
    /\ UNCHANGED <<parseVars, agentVars, provVars, auxVars>>

\* the finally block after provider.complete is over: shutdown_asyncgens
\* runs on the loop, set_event_loop(None); the loop is not closed
GenerateExit(kind, txt, err) ==
    /\ loops' = [loops EXCEPT ![gen.loop] = "asyncgens_shut"]
    /\ running' = NoLoop
    /\ current' = NoLoop
    /\ gresults' = Append(gresults,
                     Finished(kind, txt, err, gen.loop, loops'[gen.loop],
                              gen.before, current', FALSE, TRUE))
    /\ gen' = NoGen
    /\ bpc' = "caller"

\* provider.complete returns its text: generate returns it
CompleteReturns ==
    /\ bpc = "in_complete"
    /\ \E t \in RespTexts : GenerateExit("returned", t, "")
    /\ UNCHANGED <<parseVars, agentVars, provVars, auxVars>>

\* provider.complete raises: generate raises the same exception
CompleteRaises ==
    /\ bpc = "in_complete"
    /\ \E e \in ProviderErrors : GenerateExit("raised", <<>>, e)
    /\ UNCHANGED <<parseVars, agentVars, provVars, auxVars>>

\* generate is called while the caller's loop runs in the thread: the new
\* loop is made current, run_until_complete raises RuntimeError ("Cannot run
\* the event loop while another loop is running") before provider.complete
\* starts; in the finally block shutdown_asyncgens fails the same way and is
\* swallowed, then set_event_loop(None); the RuntimeError leaves generate
GenerateUnderLoop ==
    /\ bpc = "caller" /\ running # NoLoop
    /\ Len(gresults) < MaxGenerateCalls
    /\ loops' = Append(loops, "open")
    /\ current' = NoLoop
    /\ gresults' = Append(gresults,
                     Finished("raised", <<>>, "RuntimeError", new_event_loop,
                              loops'[new_event_loop], current, current', TRUE, FALSE))
    /\ UNCHANGED <<bpc, running, gen>>
    /\ UNCHANGED <<parseVars, agentVars, provVars, auxVars>>

-----------------------------------------------------------------------------
(* ShortTermMemory: a list of messages and a capacity.                     *)

MaxCapacity == 2       \* capacities 0..MaxCapacity
MaxAdds     == 4       \* adds between two clears
Messages    == {"m1", "m2"}

Max2(a, b) == IF a >= b THEN a ELSE b
Min2(a, b) == IF a <= b THEN a ELSE b

\* s[k:] of a Python list: a negative k counts from the end, -0 is 0
SliceFrom(s, k) ==
    LET start == IF k < 0 THEN Max2(Len(s) + k, 0) ELSE Min2(k, Len(s))
    IN  SubSeq(s, start + 1, Len(s))

\* ShortTermMemory(capacity)
MemInit ==
    /\ capacity \in 0..MaxCapacity
    /\ buf = <<>>
    /\ added = <<>>
    /\ dumped = <<>>
    /\ lastOp = "init"

\* add(msg): append, then keep the last capacity messages if there are more
MemAdd ==
    /\ lastOp # "none" /\ Len(added) < MaxAdds
    /\ \E msg \in Messages :
        LET appended == Append(buf, msg)
        IN  /\ buf' = IF Len(appended) > capacity
                      THEN SliceFrom(appended, -capacity) ELSE appended
            /\ added' = Append(added, msg)
    /\ lastOp' = "add"
    /\ UNCHANGED <<capacity, dumped>>
    /\ UNCHANGED <<parseVars, agentVars, provVars, bridgeVars, logVars, appVars, flowVars>>

\* clear()
MemClear ==
    /\ lastOp # "none"
    /\ buf' = <<>>
    /\ added' = <<>>
    /\ lastOp' = "clear"
    /\ UNCHANGED <<capacity, dumped>>
    /\ UNCHANGED <<parseVars, agentVars, provVars, bridgeVars, logVars, appVars, flowVars>>

\* dump(): a copy of the list
MemDump ==
    /\ lastOp # "none"
    /\ dumped' = buf
    /\ lastOp' = "dump"
    /\ UNCHANGED <<capacity, buf, added>>
    /\ UNCHANGED <<parseVars, agentVars, provVars, bridgeVars, logVars, appVars, flowVars>>

-----------------------------------------------------------------------------
(* JSONLRunLogger: log calls appending to one file.                        *)

MaxLogs == 3           \* log calls
MaxTime == 3           \* the clock runs from 1 to MaxTime

\* datetime.utcnow().isoformat()
isoformat(now) == Lit(Str(ToString(now)))

\* the records handed to log
LogRecords ==
    { <<>>,
      <<Item("event", Lit(Str("start")))>>,
      <<Item("ts", Lit(Str("caller")))>>,
      <<Item("event", Lit(Str("end"))), Item("ts", Lit(Str("caller")))>> }

\* what the file can hold before the first call
InitialFiles == {<<>>, Dumps(Dict(<<Item("ts", isoformat(0))>>)) \o <<NL>>}

RECURSIVE Unpack(_, _, _)
\* {..., **r}: the items of r are set one after the other
Unpack(m, r, i) ==
    IF i > Len(r) THEN m ELSE Unpack(DictSet(m, r[i].k, r[i].v), r, i + 1)

\* {"ts": ts, **record}
Stamped(ts, record) == Unpack(<<Item("ts", ts)>>, record, 1)

\* JSONLRunLogger(path)
LogInit ==
    /\ existing \in InitialFiles
    /\ logfile = existing
    /\ clock = 1
    /\ logged = <<>>

\* log(record): the record is stamped, dumped and written with a newline
\* to the file opened for appending
LogCall ==
    /\ clock >= 1 /\ Len(logged) < MaxLogs
    /\ \E now \in clock..MaxTime, record \in LogRecords :
        /\ clock' = now
        /\ logfile' = logfile \o Dumps(Dict(Stamped(isoformat(now), record))) \o <<NL>>
        /\ logged' = Append(logged, [at |-> now, record |-> record])
    /\ UNCHANGED existing
    /\ UNCHANGED <<parseVars, agentVars, provVars, bridgeVars, memVars, appVars, flowVars>>

-----------------------------------------------------------------------------
(* Application.run: the tasks of the list are executed one after the       *)
(* other, each with the results of the earlier ones as context.  run is    *)
(* split where it blocks, in agent.execute.                                *)

MaxTasks == 3          \* length of the task list

\* a task: the name of its agent and its description
TaskOf(agent, description) == [agent |-> agent, description |-> description]
TaskPool == {TaskOf("dev", "code"), TaskOf("qa", "test")}

RECURSIVE TaskLists(_)
\* the task lists of length n
TaskLists(n) ==
    IF n = 0 THEN {<<>>}
    ELSE {Append(l, t) : l \in TaskLists(n - 1), t \in TaskPool}

\* what agent.execute can return
AppResults == {<<Word("r1")>>, <<Word("r2"), NL, Word("more")>>, <<>>}

\* f"{agent.name} result: {result}"
ResultLine(agent, result) == <<Word(agent), Word(" result: ")>> \o result

RECURSIVE JoinFrom(_, _)
\* "\n".join(lines)
JoinFrom(lines, i) ==
    IF i > Len(lines) THEN <<>>
    ELSE lines[i] \o (IF i < Len(lines) THEN <<NL>> ELSE <<>>) \o JoinFrom(lines, i + 1)

\* a context made of the last result only
context_blob_last_only(lines) ==
    IF lines = <<>> THEN NoneStr ELSE Some(lines[Len(lines)])

\* "\n".join(accumulated_context_lines) if accumulated_context_lines else None
context_blob(lines) == IF lines = <<>> THEN NoneStr ELSE Some(JoinFrom(lines, 1))

\* Agent.execute: the user prompt of a task without expected output
user_prompt(description, context) ==
    IF Truthy(context)
    THEN <<Word("Context from previous steps:"), NL>> \o context.txt
         \o <<NL, NL, Word("Task:"), NL, Word(description)>>
    ELSE <<Word(description)>>

\* Application(agents, tasks, tools, llm).run() is entered
AppInit ==
    /\ apc = "loop"
    /\ tasks \in UNION {TaskLists(n) : n \in 0..MaxTasks}
    /\ tidx = 0
    /\ context_lines = <<>>
    /\ results = <<>>
    /\ seen = <<>>
    /\ returned = <<>>

\* the next task of the list: agent.execute is called with the context
TaskStarts ==
    /\ apc = "loop" /\ tidx < Len(tasks)
    /\ LET task == tasks[tidx + 1]
           blob == context_blob(context_lines)
       IN  seen' = Append(seen, [task |-> tidx + 1, context |-> blob,
                                 prompt |-> user_prompt(task.description, blob)])
    /\ apc' = "executing"
    /\ UNCHANGED <<tasks, tidx, context_lines, results, returned>>
    /\ UNCHANGED <<parseVars, agentVars, provVars, bridgeVars, memVars, logVars, flowVars>>

\* agent.execute returns: the result is stored and added to the context
TaskReturns ==
    /\ apc = "executing"
    /\ \E result \in AppResults :
        LET task == tasks[tidx + 1]
        IN  /\ results' = DictSet(results, task.description, PyText(result))
            /\ context_lines' = Append(context_lines, ResultLine(task.agent, result))
            /\ returned' = Append(returned, result)
    /\ tidx' = tidx + 1
    /\ apc' = "loop"
    /\ UNCHANGED <<tasks, seen>>
    /\ UNCHANGED <<parseVars, agentVars, provVars, bridgeVars, memVars, logVars, flowVars>>

\* agent.execute raises: nothing in run catches it
TaskRaises ==
    /\ apc = "executing"
    /\ apc' = "raised"
    /\ UNCHANGED <<tasks, tidx, context_lines, results, seen, returned>>
    /\ UNCHANGED <<parseVars, agentVars, provVars, bridgeVars, memVars, logVars, flowVars>>

\* the list is exhausted: run returns results
RunReturns ==
    /\ apc = "loop" /\ tidx = Len(tasks)
    /\ apc' = "returned"
    /\ UNCHANGED <<tasks, tidx, context_lines, results, seen, returned>>
    /\ UNCHANGED <<parseVars, agentVars, provVars, bridgeVars, memVars, logVars, flowVars>>

-----------------------------------------------------------------------------
(* The specifications.  Each runs one part of the program; the variables   *)
(* of the other parts stay at a fixed value.                               *)

ParseIdle ==
    /\ obj = EchoCall(X1) /\ pre = <<>> /\ post = <<>>
    /\ forms = [f \in FormNames \cup {"reply", "pair"} |-> Pending]
    /\ pair = NoPair
    /\ text = <<>> /\ parsed = Pending

AgentIdle ==
    /\ pc = "IDLE" /\ backend = "none" /\ failed = FALSE /\ tools = {} /\ step = 0 /\ transcript = <<>>
    /\ replies = <<>> /\ call = None /\ last_final = NoneStr
    /\ last_tool_result = NoneStr /\ output = <<>> /\ calls = 0
    /\ prompts = <<>> /\ toolLog = <<>> /\ exit = ""

ProvIdle ==
    /\ provider = "none" /\ ppc = "idle" /\ attempt = 0 /\ delay = 1 /\ fb = 0
    /\ caught = NoErr /\ reqs = <<>> /\ sleeps = <<>>
    /\ presult = [kind |-> "pending", txt |-> <<>>, err |-> NoErr]

BridgeIdle ==
    /\ bpc = "none" /\ loops = <<>> /\ current = NoLoop /\ running = NoLoop
    /\ gen = NoGen /\ gresults = <<>>

MemIdle ==
    /\ capacity = 0 /\ buf = <<>> /\ added = <<>> /\ dumped = <<>> /\ lastOp = "none"

LogIdle ==
    /\ logfile = <<>> /\ existing = <<>> /\ clock = 0 /\ logged = <<>>

AppIdle ==
    /\ apc = "none" /\ tasks = <<>> /\ tidx = 0 /\ context_lines = <<>>
    /\ results = <<>> /\ seen = <<>> /\ returned = <<>>

StreamIdle ==
    /\ events = <<>> /\ yielded = <<>>

DagIdle ==
    /\ dpc = "none" /\ nodes = <<>> /\ edges = <<>> /\ indeg = <<>>
    /\ ready = <<>> /\ dag_results = <<>> /\ executed = <<>>

FlowIdle == StreamIdle /\ DagIdle

\* Agent.execute
Init == AgentInit /\ ParseIdle /\ ProvIdle /\ BridgeIdle /\ MemIdle /\ LogIdle /\ AppIdle /\ FlowIdle
Next ==
    \/ Start
    \/ OnReply
    \/ BackendRaises
    \/ OllamaFails
    \/ ToolReturns
    \/ ToolRaises
    \/ ToolRejects
Spec == Init /\ [][Next]_vars

\* Agent.execute with a backend whose generate always returns: the code is
\* synchronous, so every call that returns is followed by the next statement
NextReturning ==
    \/ Start
    \/ OnReply
    \/ OllamaFails
    \/ ToolReturns
    \/ ToolRaises
    \/ ToolRejects
SpecReturning == Init /\ [][NextReturning]_vars /\ WF_vars(NextReturning)

\* parse_tool_call
InitParse == ParseInit /\ AgentIdle /\ ProvIdle /\ BridgeIdle /\ MemIdle /\ LogIdle /\ AppIdle /\ FlowIdle
NextParse ==
    \/ ParseFenced
    \/ ParseWhole
    \/ ParseEmbedded
    \/ ParseReply
    \/ ParsePair
SpecParse == InitParse /\ [][NextParse]_vars

\* LLMProvider.complete
InitProvider ==
    ProvInit /\ AgentIdle /\ ParseIdle /\ BridgeIdle /\ MemIdle /\ LogIdle /\ AppIdle /\ FlowIdle
NextProvider ==
    \/ GeminiAttempt
    \/ GeminiFallback
    \/ AnthropicAttempt
    \/ OpenAIComplete
    \/ OllamaComplete
SpecProvider == InitProvider /\ [][NextProvider]_vars

\* ProviderSyncAdapter.generate
InitBridge ==
    BridgeInit /\ AgentIdle /\ ParseIdle /\ ProvIdle /\ MemIdle /\ LogIdle /\ AppIdle /\ FlowIdle
NextBridge ==
    \/ CallerRuns
    \/ CallerStops
    \/ GenerateEnter
    \/ CompleteReturns
    \/ CompleteRaises
    \/ GenerateUnderLoop
SpecBridge == InitBridge /\ [][NextBridge]_vars

\* ShortTermMemory
InitMemory ==
    MemInit /\ AgentIdle /\ ParseIdle /\ ProvIdle /\ BridgeIdle /\ LogIdle /\ AppIdle /\ FlowIdle
NextMemory ==
    \/ MemAdd
    \/ MemClear
    \/ MemDump
SpecMemory == InitMemory /\ [][NextMemory]_vars

\* JSONLRunLogger
InitLogger ==
    LogInit /\ AgentIdle /\ ParseIdle /\ ProvIdle /\ BridgeIdle /\ MemIdle /\ AppIdle /\ FlowIdle
NextLogger == LogCall
SpecLogger == InitLogger /\ [][NextLogger]_vars

\* LLMProvider.stream
InitStream ==
    /\ StreamInit /\ DagIdle
    /\ AgentIdle /\ ParseIdle /\ BridgeIdle /\ MemIdle /\ LogIdle /\ AppIdle
NextStream ==
    \/ StreamOpen
    \/ StreamNext
SpecStream == InitStream /\ [][NextStream]_vars

\* DAGWorkflow
InitDag ==
    /\ DagInit /\ StreamIdle
    /\ AgentIdle /\ ParseIdle /\ ProvIdle /\ BridgeIdle /\ MemIdle /\ LogIdle /\ AppIdle
NextDag ==
    \/ DagNode
    \/ DagLink
    \/ DagRunStarts
    \/ DagStep
    \/ DagNodeRaises
    \/ DagReturns
SpecDag == InitDag /\ [][NextDag]_vars

\* Application.run
InitApp ==
    AppInit /\ AgentIdle /\ ParseIdle /\ ProvIdle /\ BridgeIdle /\ MemIdle /\ LogIdle /\ FlowIdle
NextApp ==
    \/ TaskStarts
    \/ TaskReturns
    \/ TaskRaises
    \/ RunReturns
SpecApp == InitApp /\ [][NextApp]_vars

-----------------------------------------------------------------------------
(* Properties *)

Last(q) == q[Len(q)]

\* t holds sub as a contiguous piece
Contains(t, sub) ==
    \E i \in 0..(Len(t) - Len(sub)) : SubSeq(t, i + 1, i + Len(sub)) = sub

HasMarker(t) == \E i \in 1..Len(t) : t[i] = FINAL

\* the text after the first marker of t, trimmed
TrimmedAfterMarker(t) ==
    LET i == CHOOSE i \in 1..Len(t) : t[i] = FINAL /\ \A h \in 1..(i-1) : t[h] # FINAL
    IN  Strip(SubSeq(t, i + 1, Len(t)))

FinalAnswer(t) == Dict(<<Item("final", PyText(t))>>)

\* C1: one call of Agent.execute issues at most max_steps backend generate
\* calls, whatever the backend replies and the tools do.
C1_AtMostMaxStepsCalls == calls <= max_steps /\ Len(prompts) = calls

C1_Witness == pc = "DONE" /\ calls = max_steps /\ exit = "step_limit"

\* C2: for every reply that holds the final marker, parse_tool_call returns
\* a FinalAnswer whose text is exactly the trimmed text after the (first)
\* marker, also when a well-formed tool call appears earlier in the reply.
C2_FinalMarkerWins ==
    (parsed # Pending /\ HasMarker(text))
        => parsed = FinalAnswer(TrimmedAfterMarker(text))

\* a reply whose marker follows a well-formed fenced tool call and is
\* followed by a non-empty answer
C2_Witness ==
    /\ forms["reply"] # Pending
    /\ HasMarker(text)
    /\ Contains(text, Fenced(obj) \o <<FINAL>>)
    /\ parsed.t = "obj" /\ HasKey(parsed.m, "final")
    /\ Get(parsed.m, "final").txt # <<>>

\* C3: a valid {tool, args} object parses to the same tool call (same tool
\* name, same arguments) when presented as a json fenced block, as the
\* whole reply, and embedded in prose.
C3_FormsAgree ==
    (\A f \in FormNames : forms[f] # Pending)
        => /\ forms["fenced"] = obj
           /\ forms["whole"] = obj
           /\ forms["embedded"] = obj

\* the last reply is a tool call that names a tool absent from the registry
UnknownToolReply(r) ==
    /\ Parsed[r] # None
    /\ ~HasKey(Parsed[r].m, "final")
    /\ \A n \in tools : PyStr(Get(Parsed[r].m, "tool")) # <<Word(n)>>

\* C4: when a reply is a tool call naming a tool that is not in the registry
\* (or there is no registry), the loop ends on that turn: no tool is
\* executed for it, no further backend call is made, and the output holds
\* the name of the tool; on the first reply exactly one backend call was made.
C4_UnknownToolEndsLoop ==
    (replies # <<>> /\ UnknownToolReply(Last(replies)))
        => /\ pc = "DONE"
           /\ calls = Len(replies)
           /\ Len(toolLog) = Len(replies) - 1
           /\ Contains(output, PyStr(Get(Parsed[Last(replies)].m, "tool")))
           /\ (Len(replies) = 1 => calls = 1 /\ toolLog = <<>>)

\* an unknown tool is asked for after a tool call that was served
C4_Witness ==
    /\ Len(replies) >= 2 /\ UnknownToolReply(Last(replies))
    /\ tools # {} /\ pc = "DONE"
    /\ Contains(output, <<Word("Foo")>>)

TransientAt(i) == ~reqs[i].out.ok /\ reqs[i].out.err.cls = "ServerError"
PermanentAt(i) == ~reqs[i].out.ok /\ reqs[i].out.err.cls \in {"NotFound", "Unauthorized"}

\* C5: when the first two attempts of complete fail with a transient
\* (server-side 5xx) error and the third succeeds, complete returns the text
\* of the third attempt, three requests were made, all on the primary model.
C5_ThirdAttemptSucceeds ==
    /\ (Len(reqs) >= 2 /\ TransientAt(1) /\ TransientAt(2) /\ Len(reqs) = 2)
            => ppc = "primary" /\ fb = 0
    /\ (Len(reqs) >= 3 /\ TransientAt(1) /\ TransientAt(2) /\ reqs[3].out.ok)
            => /\ ppc = "returned"
               /\ presult.kind = "returned" /\ presult.txt = reqs[3].out.txt
               /\ Len(reqs) = 3
               /\ \A i \in 1..3 : reqs[i].model = "primary"
               /\ fb = 0

C5_Witness ==
    /\ Len(reqs) = 3 /\ TransientAt(1) /\ TransientAt(2) /\ reqs[3].out.ok
    /\ presult.kind = "returned" /\ presult.txt = <<Word("hi")>>

\* C6: when the first attempt of complete fails with a permanent error
\* (unknown model, bad credentials), complete raises that error after this
\* one attempt: no retry, no backoff sleep, no fallback model.
C6_PermanentFailsAtOnce ==
    (Len(reqs) >= 1 /\ PermanentAt(1))
        => /\ ppc = "raised"
           /\ presult.kind = "raised" /\ presult.err = reqs[1].out.err
           /\ Len(reqs) = 1
           /\ sleeps = <<>>
           /\ fb = 0

C6_Witness ==
    /\ Len(reqs) = 1 /\ reqs[1].out.err.cls = "NotFound"
    /\ ppc = "raised" /\ presult.err.cls = "NotFound"

\* the reply r is a tool call that names a registered tool
KnownToolReply(r) ==
    /\ Parsed[r] # None
    /\ ~HasKey(Parsed[r].m, "final")
    /\ \E n \in tools : PyStr(Get(Parsed[r].m, "tool")) = <<Word(n)>>

\* the text of the tool result of invocation e: what the callable returned,
\* or the error message of a failed call
ResultText(e) ==
    IF e.outcome = "returned" THEN e.value
    ELSE <<Word("Tool execution error: ")>> \o e.value

SixToolCalls ==
    /\ Len(replies) = max_steps
    /\ \A i \in 1..max_steps : KnownToolReply(replies[i])
    /\ pc # "TOOL_CALL"

\* C7 as stated: after max_steps replies that are all calls of a known tool,
\* the loop has ended with max_steps backend calls and max_steps tool
\* executions, and its output equals the text of the last tool result.
C7_Original ==
    SixToolCalls
        => /\ pc = "DONE"
           /\ calls = max_steps
           /\ Len(toolLog) = max_steps
           /\ output = ResultText(toolLog[max_steps])

\* C7, amended: ... and its output equals the text of the last tool result
\* with leading and trailing whitespace removed.
C7_StepLimitOutput ==
    SixToolCalls
        => /\ pc = "DONE"
           /\ calls = max_steps
           /\ Len(toolLog) = max_steps
           /\ output = Strip(ResultText(toolLog[max_steps]))

C7_Witness ==
    /\ SixToolCalls /\ pc = "DONE"
    /\ output = <<Word("ok")>>
    /\ toolLog[max_steps].value = <<SP, Word("ok"), NL>>

\* C8: when a reply calls a known tool that executes successfully and the
\* step limit is not reached, the loop is not done: it makes another
\* backend call, and the transcript passed to it is the previous one
\* extended with the tool name, the arguments and the stringified result.
C8_ToolResultFedBack ==
    \A i \in 1..Len(toolLog) :
        (toolLog[i].outcome = "returned" /\ i < max_steps)
            => /\ Len(prompts) >= i + 1
               /\ prompts[i + 1] =
                    Append(prompts[i], Entry("tool", toolLog[i].name,
                                             Dumps(toolLog[i].args), toolLog[i].value))
               /\ (Len(replies) = i => pc # "DONE" /\ output = <<>>)

\* Echo called with {"x": 1} returned "1", and a second tool call was fed
\* back after it
C8_Witness ==
    /\ Len(toolLog) = 2 /\ pc = "AWAIT_REPLY" /\ calls = 3
    /\ toolLog[1].name = <<Word("Echo")>> /\ toolLog[1].args = X1
    /\ toolLog[1].value = <<Word("1")>>
    /\ toolLog[2].outcome = "returned"
    /\ Last(prompts[3]).result = toolLog[2].value

\* C9: a reply classified as FinalAnswer, at whichever turn it arrives, ends
\* the loop on that turn, and the output is exactly the FinalAnswer text,
\* also when that text is empty.
C9_FinalAnswerIsOutput ==
    (replies # <<>> /\ HasMarker(Last(replies)))
        => /\ pc = "DONE"
           /\ calls = Len(replies)
           /\ output = TrimmedAfterMarker(Last(replies))

\* C10: when a known tool rejects its arguments or its callable raises (an
\* Exception), Agent.execute does not raise: the failure is stringified into the tool
\* result appended to the transcript, and the loop goes on with another
\* backend call if steps remain.
C10_ToolFailureAbsorbed ==
    /\ \A i \in 1..Len(toolLog) :
        toolLog[i].outcome \in {"invalid", "raised"}
            => /\ Len(transcript) >= i + 1
               /\ transcript[i + 1] =
                    Entry("tool", toolLog[i].name, Dumps(toolLog[i].args),
                          <<Word("Tool execution error: ")>> \o toolLog[i].value)
               /\ (i < max_steps => Len(prompts) >= i + 1
                                    /\ prompts[i + 1] = SubSeq(transcript, 1, i + 1))
               /\ (i = max_steps => pc = "DONE")
    \* every tool call made was answered, and a raise comes from an
    \* unanswered backend call alone
    /\ (pc # "TOOL_CALL" => Len(toolLog) = step)
    /\ (pc = "RAISED" => calls = Len(replies) + 1)

C10_Witness ==
    /\ Len(toolLog) = 2 /\ pc = "AWAIT_REPLY" /\ calls = 3
    /\ toolLog[1].outcome = "invalid"
    /\ toolLog[2].outcome = "raised"

FailedAt(i)  == ~reqs[i].out.ok
TimeoutAt(i) == FailedAt(i) /\ reqs[i].out.err.cls = "TimeoutError"
PrimaryExhausted ==
    Len(reqs) >= max_retries /\ \A i \in 1..max_retries : TransientAt(i)

\* C11: an attempt of complete that exceeds its 60-unit timeout is handled
\* as a transient failure, as a server-side 5xx is: it is retried with
\* backoff under the 3-attempt budget (and then escalated to the fallbacks).
\* Stated for the Gemini and the Anthropic provider: after a timeout of one
\* of the first two attempts complete has not raised; it has slept and goes
\* on with the primary model.
C11_TimeoutIsTransient ==
    \A i \in 1..Len(reqs) :
        (provider \in {"gemini", "anthropic"} /\ i < max_retries
         /\ TimeoutAt(i) /\ Len(reqs) = i)
            => ppc = "primary" /\ Len(sleeps) = i

\* C12: when the three attempts on the primary model all fail with transient
\* errors, GeminiProvider.complete tries the fallback models in their listed
\* order, each once, returns the text of the first one that succeeds, and
\* tries no fallback after it.
C12_FallbacksInOrder ==
    (provider = "gemini" /\ PrimaryExhausted)
        => /\ Len(reqs) <= max_retries + Len(fallbacks)
           /\ fb = Len(reqs) - max_retries
           /\ \A i \in (max_retries + 1)..Len(reqs) :
                /\ reqs[i].model = fallbacks[i - max_retries]
                /\ reqs[i].out.ok
                    => /\ i = Len(reqs)
                       /\ ppc = "returned"
                       /\ presult.kind = "returned"
                       /\ presult.txt = reqs[i].out.txt
           /\ ((\A i \in 1..Len(reqs) : FailedAt(i))
               /\ Len(reqs) < max_retries + Len(fallbacks)) => ppc = "fallback"

\* the first fallback failed, the second one answered, the third was not tried
C12_Witness ==
    /\ provider = "gemini" /\ PrimaryExhausted
    /\ Len(reqs) = max_retries + 2
    /\ FailedAt(max_retries + 1)
    /\ reqs[max_retries + 2].model = "models/gemini-2.5-flash-lite"
    /\ reqs[max_retries + 2].out.ok
    /\ ppc = "returned" /\ presult.txt = <<Word("hi")>>

\* C13: when the three primary attempts and every fallback model fail,
\* complete raises the error of the most recent failed attempt, that of the
\* last fallback.
C13_RaisesLastError ==
    (provider = "gemini" /\ PrimaryExhausted
     /\ Len(reqs) = max_retries + Len(fallbacks)
     /\ \A i \in 1..Len(reqs) : FailedAt(i))
        => /\ ppc = "raised"
           /\ presult.err = reqs[Len(reqs)].out.err

\* C14: a permanent provider error (unknown model, bad credentials) is never
\* retried, at whichever attempt it occurs: after one on a primary attempt
\* or on a fallback model, complete makes no further request and raises it.
C14_PermanentNeverRetried ==
    \A i \in 1..Len(reqs) :
        PermanentAt(i)
            => /\ Len(reqs) = i
               /\ ppc = "raised"
               /\ presult.err = reqs[i].out.err

\* C15: in every provider, a transient failure (5xx) of complete is retried
\* (up to 3 attempts, with backoff), then escalated through the fallback
\* models, and raised to the caller only when both are exhausted.
C15_EveryProviderRetries ==
    /\ \A i \in 1..Len(reqs) :
        (i < max_retries /\ Len(reqs) = i /\ \A j \in 1..i : TransientAt(j))
            => ppc = "primary" /\ Len(sleeps) = i
    /\ (ppc = "raised" /\ TransientAt(Len(reqs)))
            => Len(reqs) = max_retries + Len(fallbacks)

StepLimit == exit = "step_limit"

\* C16 as stated: when the step limit stops the loop, the output is the
\* FinalAnswer text if one exists; else the last tool-result text; else,
\* when that text is empty, the last raw reply text; else the empty string.
C16_Original ==
    StepLimit
        => output = IF Truthy(last_final) THEN last_final.txt
                    ELSE IF ResultText(Last(toolLog)) # <<>>
                         THEN ResultText(Last(toolLog))
                    ELSE IF Last(replies) # <<>> THEN Last(replies)
                    ELSE <<>>

\* C16, amended: when the step limit stops the loop no FinalAnswer exists,
\* and the output is the last tool-result text with leading and trailing
\* whitespace removed, the empty string when nothing is left of it; the
\* last raw reply text is not the output.
C16_StepLimitPriority ==
    StepLimit
        => /\ last_final = NoneStr
           /\ \A i \in 1..Len(replies) : ~HasMarker(replies[i])
           /\ Len(toolLog) = max_steps
           /\ output = Strip(ResultText(Last(toolLog)))
           /\ Strip(ResultText(Last(toolLog))) = <<>>
                => output = <<>> /\ output # Strip(Last(replies))

\* the sixth tool returned the empty string: the output is empty, not the
\* sixth reply
C16_Witness ==
    /\ StepLimit /\ pc = "DONE"
    /\ Last(toolLog).outcome = "returned" /\ Last(toolLog).value = <<>>
    /\ Last(replies) # <<>>
    /\ output = <<>>

\* C17: a reply that parse_tool_call cannot parse (no final marker, no
\* two-field tool-call object), at whichever turn it arrives, does not make
\* the loop raise; the loop ends on that turn and its output is that reply
\* (compared up to the leading and trailing whitespace execute strips).
C17_UnparsedIsOutput ==
    (replies # <<>> /\ IsUnparsed(Parsed[Last(replies)]))
        => /\ pc = "DONE"
           /\ calls = Len(replies)
           /\ output = Strip(Last(replies))

\* C18: when the backend call fails at the provider level, execute ends
\* with an error raised to its caller and no textual result, whatever the
\* backend, the default OllamaLLM included; every other way the loop ends
\* (unknown tool, bad arguments, tool error, unparsed reply) returns a text.
C18_ProviderFailureRaises ==
    /\ failed => pc = "RAISED" /\ output = <<>> /\ exit = "backend_error"
    /\ ~failed => pc # "RAISED"

\* C19: every call of ProviderSyncAdapter.generate creates an event loop of
\* its own, and when generate exits, by return or by raise, that loop is
\* closed.
C19_LoopTornDown ==
    \A i \in 1..Len(gresults) :
        /\ gresults[i].loop # CallerLoop
        /\ \A j \in 1..(i - 1) : gresults[j].loop # gresults[i].loop
        /\ gresults[i].at_exit = "closed"

\* C20: generate does not interfere with the caller's concurrency context:
\* the event loop that was the thread's current one before the call is the
\* current one after generate returned or raised, and a call made while the
\* caller runs under an active loop still completes the provider call.
C20_CallerContextKept ==
    \A i \in 1..Len(gresults) :
        /\ gresults[i].after = gresults[i].before
        /\ gresults[i].under => gresults[i].ran /\ gresults[i].err # "RuntimeError"

\* backend calls issued and not yet answered; tool executions started and
\* not yet over
BackendInFlight == calls - Len(replies) - (IF pc = "RAISED" THEN 1 ELSE 0)
ToolInFlight == IF pc = "TOOL_CALL" THEN 1 ELSE 0
ToolReplies == {i \in 1..Len(replies) : KnownToolReply(replies[i])}

\* C21: within one Agent.execute backend calls and tool executions are
\* strictly sequential: at most one backend call and at most one tool
\* execution is in flight, never both at once, and a tool execution starts
\* only after the reply that asks for it has been received.
C21_StrictlySequential ==
    /\ BackendInFlight \in {0, 1}
    /\ BackendInFlight + ToolInFlight <= 1
    /\ BackendInFlight = 1 <=> pc = "AWAIT_REPLY"
    /\ Cardinality(ToolReplies) = Len(toolLog) + ToolInFlight
    /\ pc = "TOOL_CALL"
        => /\ replies # <<>> /\ KnownToolReply(Last(replies))
           /\ call = Parsed[Last(replies)]
           /\ calls = Len(replies)

\* the second tool runs: two replies were received, no backend call is out
C21_Witness ==
    /\ pc = "TOOL_CALL" /\ Len(toolLog) = 1
    /\ calls = 2 /\ Len(replies) = 2

IsPrefix(a, b) == Len(a) <= Len(b) /\ SubSeq(b, 1, Len(a)) = a

\* C22: during one Agent.execute the transcript is append-only and the step
\* count is monotone and bounded: the transcript passed to each backend
\* call has that of the previous call as a prefix, the first one is the
\* initial prompt, no step shortens the transcript or lowers the step count,
\* and the step count never exceeds max_steps.
C22_AppendOnly ==
    /\ [](/\ step <= max_steps
          /\ \A i \in 1..Len(prompts) :
                /\ prompts[i][1] = Conversation
                /\ i > 1 => /\ IsPrefix(prompts[i - 1], prompts[i])
                            /\ Len(prompts[i]) = Len(prompts[i - 1]) + 1)
    /\ [][/\ IsPrefix(transcript, transcript')
          /\ step' >= step]_vars

\* three backend calls, each with a longer transcript; two steps completed
C22_Witness ==
    /\ Len(prompts) = 3 /\ step = 2
    /\ Len(prompts[1]) = 1 /\ Len(prompts[3]) = 3
    /\ transcript = prompts[3]

\* C23: for every capacity, 0 and 1 included, and after any sequence of add
\* and clear, the buffer of ShortTermMemory holds at most capacity messages.
C23_AtMostCapacity == Len(buf) <= capacity

LastN(s, n) == SubSeq(s, Len(s) - n + 1, Len(s))

\* C24: dump returns the min(n, capacity) most recently added of the n
\* messages added since the last clear, in insertion order; after clear it
\* returns the empty sequence.
C24_DumpMostRecent ==
    lastOp = "dump" => dumped = LastN(added, Min2(Len(added), capacity))

RECURSIVE LinesFrom(_, _, _)
\* the lines of a text: the runs of tokens that end with a newline, and what
\* is left after the last newline if anything
LinesFrom(s, i, line) ==
    IF i > Len(s) THEN (IF line = <<>> THEN <<>> ELSE <<line>>)
    ELSE IF s[i] = NL THEN <<line>> \o LinesFrom(s, i + 1, <<>>)
    ELSE LinesFrom(s, i + 1, Append(line, s[i]))
Lines(s) == LinesFrom(s, 1, <<>>)

\* C25: each JSONLRunLogger.log call appends exactly one line to the log,
\* whose timestamp is the time of that call whatever fields the record has,
\* and leaves the lines written before unchanged and in place.
C25_OneStampedLinePerCall ==
    LET old == Lines(existing)
        all == Lines(logfile)
    IN  /\ Len(all) = Len(old) + Len(logged)
        /\ \A i \in 1..Len(old) : all[i] = old[i]
        /\ \A k \in 1..Len(logged) :
            LET line == json_loads(all[Len(old) + k])
            IN  /\ line.ok
                /\ HasKey(line.val.m, "ts")
                /\ Get(line.val.m, "ts") = isoformat(logged[k].at)

RECURSIVE EarlierResults(_)
\* the entries of the first k tasks, one per task, each on a line of its own
EarlierResults(k) ==
    IF k = 0 THEN <<>>
    ELSE (IF k = 1 THEN <<>> ELSE EarlierResults(k - 1) \o <<NL>>)
         \o <<Word(tasks[k].agent), Word(" result: ")>> \o returned[k]

\* C26: Application.run executes the tasks in list order, one at a time; the
\* first task gets no context, and the context of the k-th task is made of
\* the results of the tasks before it in execution order, one
\* "<agent name> result: <result>" entry per task.
C26_TasksInOrderWithContext ==
    /\ Len(seen) <= Len(tasks)
    /\ Len(seen) - Len(returned) \in {0, 1}
    /\ Len(seen) - Len(returned) = 1 <=> apc \in {"executing", "raised"}
    /\ \A k \in 1..Len(seen) :
        /\ seen[k].task = k
        /\ Len(returned) >= k - 1
        /\ k = 1 => /\ seen[k].context = NoneStr
                    /\ seen[k].prompt = <<Word(tasks[k].description)>>
        /\ k > 1 => seen[k].context = Some(EarlierResults(k - 1))

\* the third task runs with the results of dev and qa as its context
C26_Witness ==
    /\ apc = "executing" /\ Len(seen) = 3
    /\ tasks[1].agent = "dev" /\ tasks[2].agent = "qa"
    /\ seen[3].context.txt =
         <<Word("dev"), Word(" result: "), Word("r1"), NL, Word("qa"), Word(" result: ")>>

\* the moves of the loop: a turn starts with a backend call, the reply is
\* parsed, a tool call leads to the next backend call or to the end
LoopMove ==
    /\ pc = "START" => pc' = "AWAIT_REPLY"
    /\ pc = "AWAIT_REPLY" => pc' \in {"TOOL_CALL", "DONE"}
    /\ pc = "TOOL_CALL" => pc' \in {"AWAIT_REPLY", "DONE"}
    /\ pc' = "AWAIT_REPLY" <=> calls' = calls + 1
    /\ pc' # "AWAIT_REPLY" => calls' = calls
    /\ pc = "TOOL_CALL" <=> Len(toolLog') = Len(toolLog) + 1
    /\ pc # "TOOL_CALL" => toolLog' = toolLog
    /\ (pc = "TOOL_CALL" /\ pc' = "DONE") => exit' = "step_limit"
    /\ (pc = "AWAIT_REPLY" /\ pc' = "DONE")
            => exit' \in {"final", "unknown_tool", "unparsed"}

\* C27: the loop follows START -> AWAIT_REPLY -> PARSE -> {TOOL_CALL ->
\* AWAIT_REPLY, FINAL -> DONE, UNKNOWN_TOOL -> DONE, STEP_LIMIT -> DONE};
\* when the backend calls and the tools return, every execution reaches DONE
\* after at most max_steps turns; DONE is entered once, and nothing (no
\* backend call, no tool execution) happens after it.
C27_StateMachine ==
    /\ [][LoopMove /\ pc # "DONE"]_vars
    /\ [](pc = "DONE" => /\ calls = Len(replies)
                         /\ 1 <= calls /\ calls <= max_steps
                         /\ exit # "")
    /\ <>(pc = "DONE")

\* DONE was reached from the sixth tool call
C27_Witness ==
    /\ pc = "DONE" /\ exit = "step_limit"
    /\ calls = max_steps /\ Len(toolLog) = max_steps

PairParsed(layout) == forms["pair"] # Pending /\ pair.layout = layout

\* C28: the parser tries its strategies in a fixed order and the first that
\* succeeds wins: final marker, json fenced block, the whole reply, embedded
\* brace-delimited substrings, else Unparsed.  A reply that holds a valid
\* fenced tool call and, before it, a different valid embedded one yields
\* the fenced one; every reply gets exactly one classification.
C28_Precedence ==
    parsed # Pending
        => /\ \/ parsed = None
              \/ parsed.t = "obj" /\ HasKey(parsed.m, "final") /\ ~IsToolCall(parsed)
              \/ IsToolCall(parsed) /\ ~HasKey(parsed.m, "final")
           /\ HasMarker(text) => parsed = FinalAnswer(TrimmedAfterMarker(text))
           /\ (~HasMarker(text) /\ Contains(text, Fenced(obj))) => parsed = obj
           /\ text = Whole(obj) => parsed = obj
           /\ (PairParsed("embedded_fenced") /\ pair.second.val # None)
                => parsed = pair.second.val

\* an embedded call of Other comes first, a fenced call of Echo after it:
\* the reply is parsed as the call of Echo
C28_Witness ==
    /\ PairParsed("embedded_fenced")
    /\ pair.first.val = FlatCall("Other")
    /\ pair.second.val = FlatCall("Echo")
    /\ parsed = FlatCall("Echo")

\* the valid candidate that comes first in the reply, None if there is none
LeftmostValid ==
    IF pair.first.val # None THEN pair.first.val ELSE pair.second.val

\* C29: when a reply without marker and without fenced block, not itself a
\* JSON object, embeds several brace-delimited substrings that are valid
\* {tool, args} objects, the parser returns the leftmost of them; a
\* candidate that lacks a field name or does not parse is skipped and the
\* scan goes on.
C29_LeftmostEmbedded ==
    PairParsed("embedded_embedded") => parsed = LeftmostValid

\* C30: the backoff is exponential, base 1 and factor 2, under three
\* attempts: complete waits 1 time unit before the 2nd attempt and 2 before
\* the 3rd, and does not wait after the 3rd failed attempt, before it raises
\* or moves to the fallback models.
C30_ExponentialBackoff ==
    provider \in {"gemini", "anthropic"}
        => /\ Len(sleeps) <= max_retries - 1
           /\ \A i \in 1..Len(sleeps) : sleeps[i] = 2 ^ (i - 1)
           /\ Cardinality({i \in 1..Len(reqs) : reqs[i].model = "primary"})
                <= max_retries
           /\ ppc = "primary" => Len(sleeps) = Len(reqs)
           /\ ppc \in {"returned", "raised", "fallback"}
                => Len(sleeps) = Min2(Len(reqs), max_retries) - 1

\* the third attempt failed after waits of 1 and 2; no third wait was made
C30_Witness ==
    /\ provider \in {"gemini", "anthropic"}
    /\ PrimaryExhausted /\ Len(reqs) = max_retries
    /\ sleeps = <<1, 2>>
    /\ ppc \in {"fallback", "raised"}

\* the backend raised while the stream was opened or consumed
BackendFailedStream ==
    \/ \E i \in 1..Len(reqs) : ~reqs[i].out.ok
    \/ \E i \in 1..Len(events) : events[i].kind = "error"

\* C31: stream is single-attempt: whatever error the backend raises while a
\* stream is opened or consumed, stream makes exactly one backend request,
\* makes no retry, no backoff and no fallback, and an error reaches the
\* consumer.
C31_StreamSingleAttempt ==
    /\ Len(reqs) <= 1
    /\ ppc # "open" => Len(reqs) = 1
    /\ \A i \in 1..Len(reqs) : reqs[i].model = "primary"
    /\ sleeps = <<>> /\ attempt = 0 /\ fb = 0
    /\ BackendFailedStream
        => /\ ppc = "raised" /\ presult.kind = "raised"
           /\ presult.err.cls # ""

\* a transient error arrived after a chunk was yielded, and was raised
C31_Witness ==
    /\ provider \in {"gemini", "anthropic"}
    /\ Len(yielded) >= 1
    /\ Len(events) >= 2 /\ events[Len(events)].kind = "error"
    /\ events[Len(events)].err.cls = "ServerError"
    /\ ppc = "raised" /\ Len(reqs) = 1

\* the reply r holds no marker and parses as an object with tool and args
TwoFieldReply(r) == ~HasMarker(r) /\ IsToolCall(Parsed[r])

\* C32: every reply without the final marker that parses as a {tool, args}
\* object leads to the dispatch of the named tool or to the unknown-tool
\* end; it is never taken as a FinalAnswer, whatever other keys the object
\* carries.
C32_ToolCallNeverFinal ==
    (replies # <<>> /\ TwoFieldReply(Last(replies)) /\ Len(toolLog) < Len(replies))
        => \/ pc = "TOOL_CALL"
           \/ pc = "DONE" /\ exit = "unknown_tool"

\* the requests of complete made on the model m
RequestsOn(m) == {i \in 1..Len(reqs) : reqs[i].model = m}

\* C33: one call of GeminiProvider.complete makes at most 6 backend requests
\* (3 on the primary model and one on each fallback model) and, whatever
\* fails and succeeds, ends by returning a text or by raising an error; it
\* never returns without a value.
C33_GeminiBoundedAndDecided ==
    provider = "gemini"
        => /\ Len(reqs) <= max_retries + Len(fallbacks)
           /\ Cardinality(RequestsOn("primary")) <= max_retries
           /\ \A n \in 1..Len(fallbacks) : Cardinality(RequestsOn(fallbacks[n])) <= 1
           /\ ppc \in {"primary", "fallback", "returned", "raised"}
           /\ ppc \in {"primary", "fallback"}
                => /\ Len(reqs) < max_retries + Len(fallbacks)
                   /\ presult.kind = "pending"
                   /\ ENABLED (GeminiAttempt \/ GeminiFallback)
           /\ ppc = "returned"
                => /\ presult.kind = "returned" /\ presult.txt \in RespTexts
                   /\ reqs[Len(reqs)].out.ok
           /\ ppc = "raised"
                => /\ presult.kind = "raised" /\ presult.err # NoErr
                   /\ \A i \in 1..Len(reqs) : ~reqs[i].out.ok

\* six requests were made, all failed, and complete raised
C33_Witness ==
    /\ provider = "gemini" /\ ppc = "raised"
    /\ Len(reqs) = max_retries + Len(fallbacks)
    /\ Cardinality(RequestsOn("primary")) = 3
    /\ presult.kind = "raised"

\* the reply r names the registered tool n: it parses as an object whose
\* tool is n, and the registry holds n
NamesRegistered(r, n) ==
    /\ Parsed[r] # None /\ HasKey(Parsed[r].m, "tool")
    /\ PyStr(Get(Parsed[r].m, "tool")) = n
    /\ \E t \in tools : n = <<Word(t)>>

\* C34: in one Agent.execute at most one tool is executed per backend reply
\* and at most max_steps tools in all; a tool is executed only on a turn
\* whose reply names a registered tool, and no tool is executed on a turn
\* that ends in FinalAnswer, Unparsed or unknown-tool.
C34_ToolsPerReply ==
    /\ Len(toolLog) <= Len(replies)
    /\ Len(toolLog) <= max_steps
    /\ \A i \in 1..Len(toolLog) :
        /\ NamesRegistered(replies[i], toolLog[i].name)
        /\ toolLog[i].args = ToolArgsOf(Parsed[replies[i]])
    /\ exit \in {"final", "unparsed", "unknown_tool"}
        => Len(toolLog) = Len(replies) - 1
    /\ exit = "step_limit" => Len(toolLog) = max_steps

\* six replies named Echo and six tools were executed, the last turn ended
\* the loop
C34_Witness ==
    /\ pc = "DONE" /\ Len(replies) = max_steps
    /\ Len(toolLog) = max_steps
    /\ \A i \in 1..max_steps : toolLog[i].name = <<Word("Echo")>>

\* the nodes with a link into k
Predecessors(k) == {p \in Keys : k \in Elems(edges[p])}

\* C35: DAGWorkflow.run executes a node only after every node with an edge
\* into it has finished executing, and executes each node at most once, for
\* every set of nodes and links, duplicate links included.
C35_AfterPredecessorsOnce ==
    /\ \A i \in 1..Len(executed) :
        /\ executed[i] \in Elems(nodes)
        /\ \A p \in Predecessors(executed[i]) :
            \E j \in 1..(i - 1) : executed[j] = p
    /\ \A i, j \in 1..Len(executed) : executed[i] = executed[j] => i = j
    /\ dpc = "run" => Elems(dag_results) = Elems(executed)

\* a was linked to b twice and c to b once; b ran last, once
C35_Witness ==
    /\ dpc = "returned"
    /\ edges["a"] = <<"b", "b">> /\ edges["c"] = <<"b">>
    /\ Len(executed) = 3 /\ executed[3] = "b"

\* C36: for every graph built with node and link, DAGWorkflow.run
\* terminates and returns a result for every registered node; no registered
\* node is silently left unexecuted.
C36_EveryNodeRuns ==
    /\ dpc = "run"
        => /\ Len(executed) <= Len(nodes)
           /\ ENABLED (DagStep \/ DagReturns)
    /\ dpc = "returned" => Elems(dag_results) = Elems(nodes)
    /\ dpc = "raised" => executed # <<>>

\* C37: Application.run returns one result entry per task it executed: for
\* every task list, also one where two tasks share a description, the
\* returned mapping has as many entries as there are tasks, and the result
\* of each task can be looked up in it.
C37_OneEntryPerTask ==
    apc = "returned"
        => /\ Len(results) = Len(tasks)
           /\ \A i \in 1..Len(tasks) :
                /\ HasKey(results, tasks[i].description)
                /\ Get(results, tasks[i].description) = PyText(returned[i])

====
